---------------------------- MODULE Spec2Model ----------------------------
(***************************************************************************)
(* Model of the vault search tools of obsidian-copilot                     *)
(* (src/tools/SearchTools.ts) and of the local reranker.                   *)
(*                                                                         *)
(* Strings are modelled as sequences of one-character strings, so that     *)
(* startsWith, includes, slice, replace and toLowerCase are computed       *)
(* character by character, as the JavaScript string methods do.            *)
(* Scores of documents are integers in units of 0.01 (0.1 is 10).          *)
(* Relevance scores of the reranker are exact fractions num/den.           *)
(***************************************************************************)
EXTENDS Integers, Sequences, FiniteSets, TLC

VARIABLES settings, search, excl, rerank, websettings, web, mention, youtube, canvas, vault, exec, registry, edit

vars == <<settings, search, excl, rerank, websettings, web, mention, youtube, canvas, vault, exec, registry, edit>>

(***************************************************************************)
(* Strings                                                                 *)
(***************************************************************************)
Min(a, b) == IF a <= b THEN a ELSE b

Max(a, b) == IF a >= b THEN a ELSE b

\* String.prototype.startsWith
StartsWith(s, prefix) ==
    /\ Len(prefix) <= Len(s)
    /\ \A i \in 1..Len(prefix) : s[i] = prefix[i]

\* String.prototype.endsWith
EndsWith(s, suffix) ==
    /\ Len(suffix) <= Len(s)
    /\ \A i \in 1..Len(suffix) : s[Len(s) - Len(suffix) + i] = suffix[i]

\* String.prototype.includes, for a one-character needle
Includes(s, c) == \E i \in 1..Len(s) : s[i] = c

\* pattern.slice(1, -1): drops the first and the last character
SliceInner(s) == SubSeq(s, 2, Len(s) - 1)

\* pattern.replace(/\*/g, ".*")
RECURSIVE GlobToRegex(_)
GlobToRegex(s) ==
    IF s = <<>> THEN <<>>
    ELSE (IF Head(s) = "*" THEN <<".", "*">> ELSE <<Head(s)>>) \o GlobToRegex(Tail(s))

\* String.prototype.toLowerCase on the letters the model uses
LowerChar(c) ==
    CASE c = "A" -> "a"
      [] c = "B" -> "b"
      [] c = "U" -> "u"
      [] OTHER   -> c

ToLowerCase(s) == [i \in 1..Len(s) |-> LowerChar(s[i])]

(***************************************************************************)
(* new RegExp(source) and RegExp.prototype.test, for the sources the       *)
(* exclusion patterns can produce: literal characters, "." (any            *)
(* character), the quantifier "*", and backslash escapes of the pattern    *)
(* alphabet (identity escapes).  A quantifier with nothing to repeat and a *)
(* backslash at the end of the source are SyntaxErrors.                    *)
(***************************************************************************)
\* the outcome of new RegExp(source): the compiled atoms, or a thrown SyntaxError
SyntaxError == [ok |-> FALSE, atoms |-> <<>>]

RECURSIVE RegExpCompile(_, _)
RegExpCompile(src, atoms) ==
    IF src = <<>> THEN [ok |-> TRUE, atoms |-> atoms]
    ELSE LET c == Head(src) IN
        IF c = "\\" THEN
            IF Len(src) < 2 THEN SyntaxError
            ELSE RegExpCompile(SubSeq(src, 3, Len(src)),
                               Append(atoms, [any |-> FALSE, ch |-> src[2], star |-> FALSE]))
        ELSE IF c = "*" THEN
            IF atoms = <<>> \/ atoms[Len(atoms)].star THEN SyntaxError
            ELSE RegExpCompile(Tail(src),
                               [atoms EXCEPT ![Len(atoms)].star = TRUE])
        ELSE RegExpCompile(Tail(src),
                           Append(atoms, [any |-> c = ".", ch |-> c, star |-> FALSE]))

AtomMatches(atom, c) == atom.any \/ atom.ch = c

\* the atoms from position i on match a prefix of s that starts at position k
RECURSIVE RegExpMatchAt(_, _, _, _)
RegExpMatchAt(atoms, i, s, k) ==
    IF i > Len(atoms) THEN TRUE
    ELSE IF atoms[i].star THEN
        \/ RegExpMatchAt(atoms, i + 1, s, k)
        \/ /\ k <= Len(s)
           /\ AtomMatches(atoms[i], s[k])
           /\ RegExpMatchAt(atoms, i, s, k + 1)
    ELSE /\ k <= Len(s)
         /\ AtomMatches(atoms[i], s[k])
         /\ RegExpMatchAt(atoms, i + 1, s, k + 1)

\* regex.test(filePath): an unanchored search
RegExpTest(atoms, s) == \E k \in 1..(Len(s) + 1) : RegExpMatchAt(atoms, 1, s, k)

(***************************************************************************)
(* isPathExcluded (ExclusionFilter)                                        *)
(***************************************************************************)
LooksLikeRegex(pattern) ==
    StartsWith(pattern, <<"/">>) \/ Includes(pattern, "*") \/ Includes(pattern, "\\")

RegexPattern(pattern) ==
    IF StartsWith(pattern, <<"/">>) /\ EndsWith(pattern, <<"/">>)
    THEN SliceInner(pattern)
    ELSE GlobToRegex(pattern)

\* the try block: TRUE when the pattern compiles and the regex matches
RegexBranchMatches(filePath, pattern) ==
    /\ LooksLikeRegex(pattern)
    /\ LET regex == RegExpCompile(RegexPattern(pattern), <<>>) IN
          /\ regex.ok
          /\ RegExpTest(regex.atoms, filePath)

\* the exact path or folder match
LiteralMatches(filePath, pattern) ==
    \/ filePath = pattern
    \/ StartsWith(filePath, pattern \o <<"/">>)
    \/ StartsWith(filePath, pattern \o <<"\\">>)

\* mutant: a pattern that looks like a regex is evaluated as a regex only
PatternExcludes_RegexOnly(filePath, pattern) ==
    IF LooksLikeRegex(pattern)
    THEN RegexBranchMatches(filePath, pattern)
    ELSE LiteralMatches(filePath, pattern)

PatternExcludes(filePath, pattern) ==
    RegexBranchMatches(filePath, pattern) \/ LiteralMatches(filePath, pattern)

isPathExcluded(filePath, excludedPatterns) ==
    IF Len(excludedPatterns) = 0 THEN FALSE
    ELSE \E i \in 1..Len(excludedPatterns) : PatternExcludes(filePath, excludedPatterns[i])

(***************************************************************************)
(* Inputs of the exclusion filter: paths and patterns over small alphabets *)
(***************************************************************************)
MaxPathLen == 4

MaxPatternLen == 2

PathChars == {"j", "o", "/", "\\"}

PatternChars == {"j", "/", "*", "\\"}

StringsUpTo(chars, n) == UNION {[1..k -> chars] : k \in 0..n}

PathSet == StringsUpTo(PathChars, MaxPathLen)

PatternSet == StringsUpTo(PatternChars, MaxPatternLen)

\* a second configured pattern, to follow any first one
SecondPatterns == {<<"j">>, <<"j", "o">>, <<"/", "o", "/">>, <<"j", "\\">>}

PatternLists ==
    {<<>>} \cup {<<p>> : p \in PatternSet}
           \cup {<<p, q>> : p \in PatternSet, q \in SecondPatterns}

NoExclusionCheck ==
    [checked |-> FALSE, filePath |-> <<>>, excludedPatterns |-> <<>>, result |-> FALSE]

\* one evaluation of isPathExcluded(filePath, excludedPatterns)
CheckPath ==
    /\ ~excl.checked
    /\ \E filePath \in PathSet, excludedPatterns \in PatternLists :
          excl' = [checked          |-> TRUE,
                   filePath         |-> filePath,
                   excludedPatterns |-> excludedPatterns,
                   result           |-> isPathExcluded(filePath, excludedPatterns)]
    /\ UNCHANGED <<settings, search, rerank, websettings, web, mention, youtube, canvas, vault, exec, registry, edit>>

(***************************************************************************)
(* Optional values (undefined / null) are sequences of length 0 or 1.      *)
(***************************************************************************)
Undefined == <<>>

Some(v) == <<v>>

\* a ?? b, for an optional a
Coalesce(a, b) == IF a # Undefined THEN a[1] ELSE b

\* a || b on strings: the empty string is falsy
OrStr(a, b) == IF a # <<>> THEN a ELSE b

\* a || b on numbers: 0 is falsy
OrNum(a, b) == IF a # 0 THEN a ELSE b

Untitled == <<"U", "n", "t", "i", "t", "l", "e", "d">>

(***************************************************************************)
(* deduplicateSources (Deduplicator): one source per key                   *)
(* (path || title).toLowerCase(), the highest score kept, in the order in  *)
(* which the keys first occur.                                             *)
(***************************************************************************)
SourceKey(s) == ToLowerCase(OrStr(s.path, s.title))

RECURSIVE DedupInto(_, _)
DedupInto(acc, rest) ==
    IF rest = <<>> THEN acc
    ELSE LET s == Head(rest)
             hit == {j \in 1..Len(acc) : SourceKey(acc[j]) = SourceKey(s)}
         IN IF hit = {} THEN DedupInto(Append(acc, s), Tail(rest))
            ELSE LET j == CHOOSE x \in hit : TRUE
                 IN IF s.score > acc[j].score
                    THEN DedupInto([acc EXCEPT ![j] = s], Tail(rest))
                    ELSE DedupInto(acc, Tail(rest))

deduplicateSources(sources) == DedupInto(<<>>, sources)

(***************************************************************************)
(* The result pipeline shared by lexicalSearch and semanticSearch          *)
(***************************************************************************)
\* mutant: no document is filtered out
FilterExcluded_None(documents, excludedPatterns) == documents

\* filteredDocuments: the documents whose path is not excluded
RECURSIVE FilterExcluded(_, _)
FilterExcluded(documents, excludedPatterns) ==
    IF documents = <<>> THEN <<>>
    ELSE (IF isPathExcluded(Head(documents).metadata.path, excludedPatterns)
          THEN <<>> ELSE <<Head(documents)>>)
         \o FilterExcluded(Tail(documents), excludedPatterns)

\* mutant: the tier's score takes precedence over the rerank score
FormatResult_ScoreFirst(doc) ==
    LET scored == Coalesce(doc.metadata.score, Coalesce(doc.metadata.rerank_score, 0))
    IN [title        |-> OrStr(doc.metadata.title, Untitled),
        content      |-> doc.pageContent,
        path         |-> doc.metadata.path,
        score        |-> scored,
        rerank_score |-> scored]

\* one element of formattedResults (the fields copied through unchanged,
\* includeInContext, source, mtime, ctime, chunkId, isChunk, explanation,
\* are left out)
FormatResult(doc) ==
    LET scored == Coalesce(doc.metadata.rerank_score, Coalesce(doc.metadata.score, 0))
    IN [title        |-> OrStr(doc.metadata.title, Untitled),
        content      |-> doc.pageContent,
        path         |-> doc.metadata.path,
        score        |-> scored,
        rerank_score |-> scored]

FormatResults(docs) == [i \in 1..Len(docs) |-> FormatResult(docs[i])]

SourceLike(d) ==
    [title |-> OrStr(d.title, OrStr(d.path, Untitled)),
     path  |-> OrStr(d.path, d.title),
     score |-> OrNum(d.rerank_score, OrNum(d.score, 0))]

\* the key of bestByKey
DocKey(d) == ToLowerCase(OrStr(d.path, d.title))

\* mutant: the first document seen for a key is never replaced
BetterThan_Never(d, existing) == FALSE

\* whether d replaces the entry bestByKey already holds for its key
BetterThan(d, existing) == OrNum(d.rerank_score, 0) > OrNum(existing.rerank_score, 0)

\* bestByKey as the sequence of its (key, value) entries
RECURSIVE BestByKeyInto(_, _)
BestByKeyInto(map, rest) ==
    IF rest = <<>> THEN map
    ELSE LET d == Head(rest)
             hit == {j \in 1..Len(map) : map[j].key = DocKey(d)}
         IN IF hit = {} THEN BestByKeyInto(Append(map, [key |-> DocKey(d), value |-> d]), Tail(rest))
            ELSE LET j == CHOOSE x \in hit : TRUE
                 IN IF BetterThan(d, map[j].value)
                    THEN BestByKeyInto([map EXCEPT ![j].value = d], Tail(rest))
                    ELSE BestByKeyInto(map, Tail(rest))

BestByKey(formattedResults) == BestByKeyInto(<<>>, formattedResults)

\* bestByKey.get(key): the value, or undefined
MapGet(map, key) ==
    LET hit == {j \in 1..Len(map) : map[j].key = key}
    IN IF hit = {} THEN Undefined ELSE Some(map[CHOOSE x \in hit : TRUE].value)

\* mutant: the mapped documents are collected back to front
RECURSIVE MapBack_Reversed(_, _)
MapBack_Reversed(dedupedSources, bestByKey) ==
    IF dedupedSources = <<>> THEN <<>>
    ELSE MapBack_Reversed(Tail(dedupedSources), bestByKey)
         \o MapGet(bestByKey, ToLowerCase(OrStr(Head(dedupedSources).path, Head(dedupedSources).title)))

\* dedupedSources.map(s => bestByKey.get(...)).filter(Boolean)
RECURSIVE MapBack(_, _)
MapBack(dedupedSources, bestByKey) ==
    IF dedupedSources = <<>> THEN <<>>
    ELSE MapGet(bestByKey, ToLowerCase(OrStr(Head(dedupedSources).path, Head(dedupedSources).title)))
         \o MapBack(Tail(dedupedSources), bestByKey)

\* mutant: the mapping runs over sourcesLike instead of dedupedSources
DedupStep_AllSources(formattedResults) ==
    LET sourcesLike == [i \in 1..Len(formattedResults) |-> SourceLike(formattedResults[i])]
    IN MapBack(sourcesLike, BestByKey(formattedResults))

\* seq with d inserted before the first element of a lower score
RECURSIVE InsertByScore(_, _)
InsertByScore(seq, d) ==
    IF seq = <<>> THEN <<d>>
    ELSE IF Head(seq).score < d.score THEN <<d>> \o seq
    ELSE <<Head(seq)>> \o InsertByScore(Tail(seq), d)

RECURSIVE SortByScore(_)
SortByScore(seq) ==
    IF seq = <<>> THEN <<>>
    ELSE InsertByScore(SortByScore(SubSeq(seq, 1, Len(seq) - 1)), seq[Len(seq)])

\* mutant: the deduplicated sources are sorted by descending score
DedupStep_SortedByScore(formattedResults) ==
    LET sourcesLike    == [i \in 1..Len(formattedResults) |-> SourceLike(formattedResults[i])]
        dedupedSources == SortByScore(deduplicateSources(sourcesLike))
    IN MapBack(dedupedSources, BestByKey(formattedResults))

\* the dedup step: deduplicateSources and the mapping back through bestByKey
DedupStep(formattedResults) ==
    LET sourcesLike    == [i \in 1..Len(formattedResults) |-> SourceLike(formattedResults[i])]
        dedupedSources == deduplicateSources(sourcesLike)
    IN MapBack(dedupedSources, BestByKey(formattedResults))

(***************************************************************************)
(* The retrievers.  Their classes live outside the search tools; a         *)
(* retriever answers with the indexed documents that match the query, the  *)
(* salient terms and the time range (index), keeps those whose tier score  *)
(* reaches minSimilarityScore, and returns at most maxK of them.  An       *)
(* unavailable index makes getRelevantDocuments throw.                     *)
(***************************************************************************)
\* the return-all ceiling, a constant of the search core that the search tools
\* import
RETURN_ALL_LIMIT == 100

TierScore(doc) == Coalesce(doc.metadata.score, 0)

RECURSIVE AboveFloor(_, _)
AboveFloor(docs, minSimilarityScore) ==
    IF docs = <<>> THEN <<>>
    ELSE (IF TierScore(Head(docs)) >= minSimilarityScore THEN <<Head(docs)>> ELSE <<>>)
         \o AboveFloor(Tail(docs), minSimilarityScore)

getRelevantDocuments(index, options) ==
    LET eligible == AboveFloor(index, options.minSimilarityScore)
    IN SubSeq(eligible, 1, Min(Len(eligible), options.maxK))

(***************************************************************************)
(* QueryPlanner: the options each handler derives                          *)
(***************************************************************************)
IsTagTerm(term) == StartsWith(term, <<"#">>)

\* salientTerms.filter((term) => term.startsWith("#"))
TagTerms(salientTerms) == SelectSeq(salientTerms, IsTagTerm)

\* timeRange ? {startTime: timeRange.startTime.epoch, endTime: ...} : undefined
EpochRange(timeRange) ==
    IF timeRange # Undefined
    THEN Some([startTime |-> timeRange[1].startTime.epoch,
               endTime   |-> timeRange[1].endTime.epoch])
    ELSE Undefined

\* mutant: the default cap is used whether or not everything is to be returned
LexicalEffectiveMaxK_Capped(shouldReturnAll, maxSourceChunks) == maxSourceChunks

LexicalEffectiveMaxK(shouldReturnAll, maxSourceChunks) ==
    IF shouldReturnAll THEN RETURN_ALL_LIMIT ELSE maxSourceChunks

\* mutant: the noise floor stays in force when everything is to be returned
LexicalMinSimilarityScore_Floor(shouldReturnAll) == 10

LexicalMinSimilarityScore(shouldReturnAll) == IF shouldReturnAll THEN 0 ELSE 10

LexicalRetrieverOptions(cfg, timeRange, salientTerms) ==
    LET tagTerms        == TagTerms(salientTerms)
        returnAll       == timeRange # Undefined
        returnAllTags   == Len(tagTerms) > 0
        shouldReturnAll == returnAll \/ returnAllTags
    IN [minSimilarityScore   |-> LexicalMinSimilarityScore(shouldReturnAll),
        maxK                 |-> LexicalEffectiveMaxK(shouldReturnAll, cfg.maxSourceChunks),
        salientTerms         |-> salientTerms,
        timeRange            |-> EpochRange(timeRange),
        returnAll            |-> returnAll,
        useRerankerThreshold |-> 50,
        returnAllTags        |-> returnAllTags,
        tagTerms             |-> tagTerms]

LexicalRetrieverClass(cfg) ==
    IF cfg.enableSemanticSearchV3 THEN "MergedSemanticRetriever" ELSE "TieredLexicalRetriever"

SemanticEffectiveMaxK(returnAll, maxSourceChunks) ==
    IF returnAll THEN Max(maxSourceChunks, 200) ELSE maxSourceChunks

SemanticRetrieverOptions(cfg, timeRange, salientTerms) ==
    LET returnAll == timeRange # Undefined
    IN [minSimilarityScore   |-> IF returnAll THEN 0 ELSE 10,
        maxK                 |-> SemanticEffectiveMaxK(returnAll, cfg.maxSourceChunks),
        salientTerms         |-> salientTerms,
        timeRange            |-> EpochRange(timeRange),
        returnAll            |-> returnAll,
        useRerankerThreshold |-> 50]

(***************************************************************************)
(* The handlers.  Each yields the record of one call: the handler that     *)
(* ran, the retriever it built, and either the thrown retrieval failure or *)
(* the documents of the JSON payload {type: "local_search", documents}.    *)
(***************************************************************************)
\* mutant: a failed retrieval is answered with an empty document list
RunHandler_EmptyOnFailure(handler, retriever, options, cfg, index, indexUp) ==
    LET documents == IF indexUp THEN getRelevantDocuments(index, options) ELSE <<>>
        filtered  == FilterExcluded(documents, cfg.vaultSearchExcludedPaths)
    IN [handler |-> handler, retriever |-> retriever, options |-> options,
        threw |-> FALSE, documents |-> documents, filtered |-> filtered,
        output |-> DedupStep(FormatResults(filtered))]

RunHandler(handler, retriever, options, cfg, index, indexUp) ==
    IF ~indexUp
    THEN [handler |-> handler, retriever |-> retriever, options |-> options,
          threw |-> TRUE, documents |-> <<>>, filtered |-> <<>>, output |-> <<>>]
    ELSE LET documents == getRelevantDocuments(index, options)
             filtered  == FilterExcluded(documents, cfg.vaultSearchExcludedPaths)
         IN [handler |-> handler, retriever |-> retriever, options |-> options,
             threw |-> FALSE, documents |-> documents, filtered |-> filtered,
             output |-> DedupStep(FormatResults(filtered))]

lexicalSearchTool(cfg, timeRange, salientTerms, index, indexUp) ==
    RunHandler("lexicalSearch", LexicalRetrieverClass(cfg),
               LexicalRetrieverOptions(cfg, timeRange, salientTerms), cfg, index, indexUp)

semanticSearchTool(cfg, timeRange, salientTerms, index, indexUp) ==
    RunHandler("semanticSearch", "HybridRetriever",
               SemanticRetrieverOptions(cfg, timeRange, salientTerms), cfg, index, indexUp)

ShouldForceLexical(timeRange, salientTerms) ==
    timeRange # Undefined \/ Len(TagTerms(salientTerms)) > 0

localSearchTool(cfg, timeRange, salientTerms, index, indexUp) ==
    IF ShouldForceLexical(timeRange, salientTerms) \/ ~cfg.enableSemanticSearchV3
    THEN lexicalSearchTool(cfg, timeRange, salientTerms, index, indexUp)
    ELSE semanticSearchTool(cfg, timeRange, salientTerms, index, indexUp)

(***************************************************************************)
(* Local reranker.  Embeddings are integer vectors whose squared norm is a *)
(* perfect square, so that Math.sqrt and the products are exact; a         *)
(* relevance score is the fraction num/den with den > 0.                   *)
(***************************************************************************)
Frac(num, den) == [num |-> num, den |-> den]

\* a < b on fractions
FracLess(a, b) == a.num * b.den < b.num * a.den

\* Math.sqrt of a perfect square
Sqrt(n) == CHOOSE r \in 0..n : r * r = n

RECURSIVE Dot(_, _, _)
Dot(vecA, vecB, i) ==
    IF i > Len(vecA) THEN 0 ELSE vecA[i] * vecB[i] + Dot(vecA, vecB, i + 1)

\* mutant: the dot product is divided by the squared norm of the first vector
cosineSimilarity_ByNormA(vecA, vecB) ==
    IF Len(vecA) # Len(vecB) THEN [threw |-> TRUE, value |-> Frac(0, 1)]
    ELSE LET dotProduct == Dot(vecA, vecB, 1)
             normA      == Dot(vecA, vecA, 1)
         IN IF normA = 0 THEN [threw |-> FALSE, value |-> Frac(0, 1)]
            ELSE [threw |-> FALSE, value |-> Frac(dotProduct, normA)]

\* mutant: the quotient is formed whatever the magnitude is
cosineSimilarity_NoZeroCheck(vecA, vecB) ==
    IF Len(vecA) # Len(vecB) THEN [threw |-> TRUE, value |-> Frac(0, 1)]
    ELSE [threw |-> FALSE,
          value |-> Frac(Dot(vecA, vecB, 1),
                         Sqrt(Dot(vecA, vecA, 1)) * Sqrt(Dot(vecB, vecB, 1)))]

\* cosineSimilarity: the thrown length error, or dotProduct / magnitude
\* (0 when the magnitude is 0)
cosineSimilarity(vecA, vecB) ==
    IF Len(vecA) # Len(vecB) THEN [threw |-> TRUE, value |-> Frac(0, 1)]
    ELSE LET dotProduct == Dot(vecA, vecB, 1)
             normA      == Dot(vecA, vecA, 1)
             normB      == Dot(vecB, vecB, 1)
             magnitude  == Sqrt(normA) * Sqrt(normB)
         IN IF magnitude = 0 THEN [threw |-> FALSE, value |-> Frac(0, 1)]
            ELSE [threw |-> FALSE, value |-> Frac(dotProduct, magnitude)]

\* (similarity + 1) / 2
RelevanceScore(similarity) == Frac(similarity.num + similarity.den, 2 * similarity.den)

\* mutant: every fallback result gets the same score
FallbackScore_Equal(index) == Frac(1, 1)

\* 1 - index * 0.01
FallbackScore(index) == Frac(100 - index, 100)

\* mutant: r is inserted before the elements of the same score
RECURSIVE InsertDescending_BeforeTies(_, _)
InsertDescending_BeforeTies(seq, r) ==
    IF seq = <<>> THEN <<r>>
    ELSE IF ~FracLess(r.relevance_score, Head(seq).relevance_score) THEN <<r>> \o seq
    ELSE <<Head(seq)>> \o InsertDescending_BeforeTies(Tail(seq), r)

\* seq with r inserted after the elements whose score is not lower than r's
RECURSIVE InsertDescending(_, _)
InsertDescending(seq, r) ==
    IF seq = <<>> THEN <<r>>
    ELSE IF FracLess(Head(seq).relevance_score, r.relevance_score) THEN <<r>> \o seq
    ELSE <<Head(seq)>> \o InsertDescending(Tail(seq), r)

\* scoredDocuments.sort((a, b) => b.relevance_score - a.relevance_score):
\* descending, stable
RECURSIVE SortDescending(_)
SortDescending(seq) ==
    IF seq = <<>> THEN <<>>
    ELSE InsertDescending(SortDescending(SubSeq(seq, 1, Len(seq) - 1)), seq[Len(seq)])

\* the backend steps of the try block, in order
BackendOutcomes ==
    {"getEmbeddingsAPI throws", "no embedding model", "embedQuery throws",
     "embedDocuments throws", "ok"}

\* the try block for n documents: whether it threw, and the sorted scores
RerankTry(n, backend, queryEmbedding, documentEmbeddings) ==
    IF backend # "ok" THEN [threw |-> TRUE, data |-> <<>>]
    ELSE LET sims == [i \in 1..n |-> cosineSimilarity(queryEmbedding, documentEmbeddings[i])]
         IN IF \E i \in 1..n : sims[i].threw THEN [threw |-> TRUE, data |-> <<>>]
            ELSE [threw |-> FALSE,
                  data  |-> SortDescending([i \in 1..n |->
                               [index |-> i - 1,
                                relevance_score |-> RelevanceScore(sims[i].value)]])]

\* the catch block: the documents in their original order
RerankFallback(n) ==
    [i \in 1..n |-> [index |-> i - 1, relevance_score |-> FallbackScore(i - 1)]]

localRerank(n, backend, queryEmbedding, documentEmbeddings) ==
    LET try == RerankTry(n, backend, queryEmbedding, documentEmbeddings)
    IN IF try.threw
       THEN [raised |-> FALSE, data |-> RerankFallback(n), model |-> "fallback"]
       ELSE [raised |-> FALSE, data |-> try.data, model |-> "embeddingModelKey || local"]

\* item.relevance_score >= 0.3
AboveThreshold(item) == ~FracLess(item.relevance_score, Frac(3, 10))

\* mutant: only the results that reach the minimum similarity threshold of
\* the rerank settings are mapped back
rerankDocuments_AboveThreshold(documents, backend, queryEmbedding, documentEmbeddings) ==
    LET data == SelectSeq(localRerank(Len(documents), backend, queryEmbedding,
                                      documentEmbeddings).data, AboveThreshold)
    IN [k \in 1..Len(data) |->
           [documents[data[k].index + 1] EXCEPT
               !.metadata.rerank_score = Some(data[k].relevance_score)]]

\* rerankDocuments: the documents in the order of the rerank result, each
\* with the relevance score as its rerank_score (the contents that are
\* embedded are the first 3000 characters of each pageContent)
rerankDocuments(documents, backend, queryEmbedding, documentEmbeddings) ==
    IF Len(documents) = 0 THEN documents
    ELSE LET data == localRerank(Len(documents), backend, queryEmbedding,
                                 documentEmbeddings).data
         IN [k \in 1..Len(data) |->
                [documents[data[k].index + 1] EXCEPT
                    !.metadata.rerank_score = Some(data[k].relevance_score)]]

(***************************************************************************)
(* Inputs of the search tools                                              *)
(***************************************************************************)
MaxDocs == 3

Meta(title, path, rerank_score, score) ==
    [title |-> title, path |-> path, rerank_score |-> rerank_score, score |-> score]

\* metadata of indexed chunks: duplicates of one note with different scores,
\* a path that differs only in case, a chunk without a path whose title is
\* another's path, an untitled chunk without scores, a rerank score of 0,
\* and chunks of a note inside the folder "j"
DocMetas ==
    { Meta(<<"a">>, <<"a">>,           Undefined, Some(30)),
      Meta(<<>>,    <<"a">>,           Some(90),  Some(30)),
      Meta(<<"a">>, <<"A">>,           Undefined, Some(5)),
      Meta(<<"a">>, <<>>,              Some(0),   Some(30)),
      Meta(<<>>,    <<>>,              Undefined, Undefined),
      Meta(<<>>,    <<"j", "/", "o">>, Undefined, Some(5)),
      Meta(<<"B">>, <<"j", "/", "o">>, Some(30),  Some(90)),
      Meta(<<"B">>, <<"b">>,           Undefined, Some(5)) }

\* the indexed documents that match a query, in the tier's order; pageContent
\* is the position of the chunk in that order
IndexSet ==
    UNION {{[i \in 1..n |-> [pageContent |-> i, metadata |-> metas[i]]] :
               metas \in [1..n -> DocMetas]} : n \in 0..MaxDocs}

TimeRangeSet ==
    {Undefined, Some([startTime |-> [epoch |-> 1], endTime |-> [epoch |-> 2]])}

SalientTermsSet == { << <<"x", "#">> >>, << <<"x">>, <<"#", "t">> >> }

MaxSourceChunksSet == {2, 150}

\* no pattern, a folder, and a file followed by a glob
ExcludedPathsSet ==
    { <<>>, << <<"j">> >>, << <<"a">>, <<"j", "*">> >> }

SettingsSet ==
    [enableSemanticSearchV3   : BOOLEAN,
     maxSourceChunks          : MaxSourceChunksSet,
     vaultSearchExcludedPaths : ExcludedPathsSet]

NoSearch == [tool |-> "none"]

\* the record of one tool call: its arguments and what the handler did
Call(tool, timeRange, salientTerms, index, indexUp, outcome) ==
    [tool |-> tool, timeRange |-> timeRange, salientTerms |-> salientTerms,
     index |-> index, indexUp |-> indexUp, cfg |-> settings] @@ outcome

(***************************************************************************)
(* Actions                                                                 *)
(***************************************************************************)
\* updateSetting(key, value)
UpdateSetting ==
    /\ search = NoSearch
    /\ \/ \E v \in BOOLEAN : settings' = [settings EXCEPT !.enableSemanticSearchV3 = v]
       \/ \E v \in MaxSourceChunksSet : settings' = [settings EXCEPT !.maxSourceChunks = v]
       \/ \E v \in ExcludedPathsSet : settings' = [settings EXCEPT !.vaultSearchExcludedPaths = v]
    /\ UNCHANGED <<search, excl, rerank, websettings, web, mention, youtube, canvas, vault, exec, registry, edit>>

\* an index that is down matches nothing
Inputs(index, indexUp) == indexUp \/ index = <<>>

LocalSearch ==
    /\ search = NoSearch
    /\ \E timeRange \in TimeRangeSet, salientTerms \in SalientTermsSet,
          index \in IndexSet, indexUp \in BOOLEAN :
          /\ Inputs(index, indexUp)
          /\ search' = Call("localSearch", timeRange, salientTerms, index, indexUp,
                            localSearchTool(settings, timeRange, salientTerms, index, indexUp))
    /\ UNCHANGED <<settings, excl, rerank, websettings, web, mention, youtube, canvas, vault, exec, registry, edit>>

LexicalSearch ==
    /\ search = NoSearch
    /\ \E timeRange \in TimeRangeSet, salientTerms \in SalientTermsSet,
          index \in IndexSet, indexUp \in BOOLEAN :
          /\ Inputs(index, indexUp)
          /\ search' = Call("lexicalSearch", timeRange, salientTerms, index, indexUp,
                            lexicalSearchTool(settings, timeRange, salientTerms, index, indexUp))
    /\ UNCHANGED <<settings, excl, rerank, websettings, web, mention, youtube, canvas, vault, exec, registry, edit>>

SemanticSearch ==
    /\ search = NoSearch
    /\ \E timeRange \in TimeRangeSet, salientTerms \in SalientTermsSet,
          index \in IndexSet, indexUp \in BOOLEAN :
          /\ Inputs(index, indexUp)
          /\ search' = Call("semanticSearch", timeRange, salientTerms, index, indexUp,
                            semanticSearchTool(settings, timeRange, salientTerms, index, indexUp))
    /\ UNCHANGED <<settings, excl, rerank, websettings, web, mention, youtube, canvas, vault, exec, registry, edit>>

(***************************************************************************)
(* Inputs and actions of the reranker                                      *)
(***************************************************************************)
\* the most documents reranked when the backend fails
MaxFallbackDocs == 102

\* the most documents reranked when the backend answers
MaxEmbedDocs == 3

\* embeddings of dimension 2, and one of dimension 1 (a mismatched length)
Embeddings == {<<0, 0>>, <<1, 0>>, <<0, 1>>, <<-1, 0>>, <<3, 4>>, <<4, -3>>, <<1>>}

NoRerank == [called |-> FALSE]

\* n documents to rerank; pageContent is the position in the input
InputDocuments(n) ==
    [i \in 1..n |-> [pageContent |-> i, metadata |-> [rerank_score |-> Undefined]]]

\* the record of one rerankDocuments call: its inputs, the response of
\* localRerank and the reordered documents
RerankCall(n, backend, queryEmbedding, documentEmbeddings) ==
    [called |-> TRUE, n |-> n, backend |-> backend,
     queryEmbedding |-> queryEmbedding, documentEmbeddings |-> documentEmbeddings,
     reranked |-> rerankDocuments(InputDocuments(n), backend, queryEmbedding,
                                  documentEmbeddings)]
    @@ localRerank(n, backend, queryEmbedding, documentEmbeddings)

\* rerankDocuments(query, documents) while the embedding backend fails
LocalRerankBackendDown ==
    /\ rerank = NoRerank
    /\ \E n \in 0..MaxFallbackDocs, backend \in BackendOutcomes \ {"ok"} :
          rerank' = RerankCall(n, backend, <<>>, <<>>)
    /\ UNCHANGED <<settings, search, excl, websettings, web, mention, youtube, canvas, vault, exec, registry, edit>>

\* rerankDocuments(query, documents) with the embeddings the backend returns
LocalRerankEmbedded ==
    /\ rerank = NoRerank
    /\ \E n \in 0..MaxEmbedDocs :
          \E queryEmbedding \in Embeddings, documentEmbeddings \in [1..n -> Embeddings] :
              rerank' = RerankCall(n, "ok", queryEmbedding, documentEmbeddings)
    /\ UNCHANGED <<settings, search, excl, websettings, web, mention, youtube, canvas, vault, exec, registry, edit>>

\* the response is handed back to the caller
ReturnRerank ==
    /\ rerank # NoRerank
    /\ rerank' = NoRerank
    /\ UNCHANGED <<settings, search, excl, websettings, web, mention, youtube, canvas, vault, exec, registry, edit>>


\* the caller consumes the payload (or the failure); nothing of the call is kept
Consume ==
    /\ search # NoSearch
    /\ search' = NoSearch
    /\ UNCHANGED <<settings, excl, rerank, websettings, web, mention, youtube, canvas, vault, exec, registry, edit>>

(***************************************************************************)
(* Web search: the provider registry (WebSearchProvider.ts) and the        *)
(* webSearch tool.  API keys and URLs are strings of characters; provider  *)
(* names, messages and result URLs are atoms.  What getStandaloneQuestion  *)
(* and the provider's HTTP request do is an input of the call.             *)
(***************************************************************************)
\* String.prototype.trim on strings of blanks and other characters
RECURSIVE TrimStart(_)
TrimStart(s) == IF s # <<>> /\ Head(s) = " " THEN TrimStart(Tail(s)) ELSE s

RECURSIVE TrimEnd(_)
TrimEnd(s) ==
    IF s # <<>> /\ s[Len(s)] = " " THEN TrimEnd(SubSeq(s, 1, Len(s) - 1)) ELSE s

Trim(s) == TrimEnd(TrimStart(s))

\* the keys of WEB_SEARCH_PROVIDERS
WEB_SEARCH_PROVIDERS == {"tavily", "brave", "serpapi", "serper", "searxng", "you", "exa"}

DEFAULT_WEB_SEARCH_PROVIDER == "tavily"

\* provider.requiresApiKey
RequiresApiKey(providerName) == providerName # "searxng"

\* settings.webSearchProvider || DEFAULT_WEB_SEARCH_PROVIDER
ProviderName(cfg) ==
    IF cfg.webSearchProvider # "" THEN cfg.webSearchProvider ELSE DEFAULT_WEB_SEARCH_PROVIDER

\* settings.webSearchApiKeys?.[providerName] || settings.webSearchApiKey || ""
getWebSearchApiKey(cfg, providerName) ==
    LET perProvider ==
            IF cfg.webSearchApiKeys # Undefined /\ providerName \in DOMAIN cfg.webSearchApiKeys[1]
            THEN cfg.webSearchApiKeys[1][providerName]
            ELSE <<>>
    IN OrStr(perProvider, OrStr(cfg.webSearchApiKey, <<>>))

\* the name of the provider that is used: the default when the configured
\* name is unknown
getWebSearchProvider(cfg) ==
    IF ProviderName(cfg) \in WEB_SEARCH_PROVIDERS
    THEN ProviderName(cfg)
    ELSE DEFAULT_WEB_SEARCH_PROVIDER

isWebSearchConfigured(cfg) ==
    LET providerName == ProviderName(cfg) IN
    IF providerName \notin WEB_SEARCH_PROVIDERS THEN FALSE
    ELSE IF providerName = "searxng"
         THEN cfg.webSearchBaseUrl # Undefined /\ Trim(cfg.webSearchBaseUrl[1]) # <<>>
    ELSE IF RequiresApiKey(providerName)
         THEN Trim(getWebSearchApiKey(cfg, providerName)) # <<>>
    ELSE TRUE

\* a thrown value: an Error with its message, or something that is no Error
Thrown(isError, message) == [isError |-> isError, message |-> message]

NotThrown == Thrown(FALSE, "")

\* a WebSearchResponse: the URLs of the results and the optional answer
Response(results, answer) == [results |-> results, answer |-> answer]

NoResponse == Response(<<>>, Undefined)

\* the outcome of an awaited call: a thrown value or a response
Throws(isError, message) == [threw |-> TRUE, thrown |-> Thrown(isError, message), response |-> NoResponse]

Returns(response) == [threw |-> FALSE, thrown |-> NotThrown, response |-> response]

\* a value is truthy: an answer that is present and not the empty string
Truthy(answer) == answer # Undefined /\ answer[1] # ""

\* provider.search(query): the provider's own configuration check, then the
\* request, whose outcome is request
ProviderSearch(cfg, provider, request) ==
    IF provider = "searxng"
    THEN IF cfg.webSearchBaseUrl = Undefined \/ cfg.webSearchBaseUrl[1] = <<>>
         THEN Throws(TRUE, "base URL not configured")
         ELSE request
    ELSE IF getWebSearchApiKey(cfg, provider) = <<>>
         THEN Throws(TRUE, "API key not configured")
         ELSE request

\* error instanceof Error ? error.message : fallback
MessageOf(thrown, fallback) == IF thrown.isError THEN thrown.message ELSE fallback

performWebSearch(cfg, request) ==
    LET provider == getWebSearchProvider(cfg) IN
    IF ~isWebSearchConfigured(cfg)
    THEN Returns(Response(<<>>, Some("provider is not configured")))
    ELSE LET result == ProviderSearch(cfg, provider, request) IN
         IF result.threw
         THEN Returns(Response(<<>>,
                  Some(MessageOf(result.thrown, "Web search failed with unknown error"))))
         ELSE result

\* one element of the JSON array the tool returns
WebPayload(error, content, citations) ==
    [type |-> "web_search", error |-> error, content |-> content, citations |-> citations]

\* mutant: a response is never taken for a failed search
SearchFailed_Never(response) == FALSE

\* response.results.length === 0 && response.answer
SearchFailed(response) == Len(response.results) = 0 /\ Truthy(response.answer)

\* the content of a successful search: the answer, if any, and the results
WebContent(response) ==
    [answer |-> IF Truthy(response.answer) THEN response.answer ELSE Undefined,
     results |-> response.results]

\* [i + 1] url
Citations(results) == [i \in 1..Len(results) |-> <<i, results[i]>>]

\* the webSearch handler: whether it threw, and the JSON array it returned
webSearchTool(cfg, standalone, request) ==
    IF standalone.threw
    THEN [threw |-> FALSE,
          json  |-> << WebPayload(Some(MessageOf(standalone.thrown, "Web search failed")),
                                  Some(MessageOf(standalone.thrown,
                                                 "Web search failed with unknown error")),
                                  <<>>) >>]
    ELSE LET response == performWebSearch(cfg, request).response IN
         IF SearchFailed(response)
         THEN [threw |-> FALSE,
               json  |-> << WebPayload(response.answer, response.answer, <<>>) >>]
         ELSE [threw |-> FALSE,
               json  |-> << WebPayload(Undefined, Some(WebContent(response)),
                                       Citations(response.results)) >>]

(***************************************************************************)
(* Inputs and actions of web search                                        *)
(***************************************************************************)
\* the most results a provider returns
MaxWebResults == 2

KeySet == {<<>>, <<" ">>, <<"k">>}

DefaultWebSettings ==
    [webSearchProvider |-> "", webSearchApiKeys |-> Undefined,
     webSearchApiKey |-> <<>>, webSearchBaseUrl |-> Undefined]

\* what getStandaloneQuestion does
StandaloneOutcomes ==
    {Returns(NoResponse), Throws(TRUE, "chain failed"), Throws(TRUE, ""), Throws(FALSE, "")}

\* what the provider's request does: a failure with its message, or a
\* response with up to MaxWebResults results and possibly an answer
RequestOutcomes ==
    {Throws(TRUE, "API error (401)"), Throws(TRUE, "net::ERR_FAILED"), Throws(FALSE, "")}
    \cup {Returns(Response([i \in 1..n |-> i], answer)) :
              n \in 0..MaxWebResults, answer \in {Undefined, Some(""), Some("answer")}}

NoWeb == [called |-> FALSE]

\* updateSetting(key, value) on the web search settings
UpdateWebSetting ==
    /\ web = NoWeb
    /\ \/ \E v \in {"", "tavily", "searxng", "bogus"} :
             websettings' = [websettings EXCEPT !.webSearchProvider = v]
       \/ \E v \in {Undefined} \cup {Some([tavily |-> k]) : k \in KeySet} :
             websettings' = [websettings EXCEPT !.webSearchApiKeys = v]
       \/ \E v \in {<<>>, <<"k">>} :
             websettings' = [websettings EXCEPT !.webSearchApiKey = v]
       \/ \E v \in {Undefined, Some(<<" ">>), Some(<<"u">>)} :
             websettings' = [websettings EXCEPT !.webSearchBaseUrl = v]
    /\ UNCHANGED <<settings, search, excl, rerank, web, mention, youtube, canvas, vault, exec, registry, edit>>

\* webSearch(query, chatHistory)
WebSearch ==
    /\ web = NoWeb
    /\ \E standalone \in StandaloneOutcomes, request \in RequestOutcomes :
          web' = [called |-> TRUE, cfg |-> websettings,
                  standalone |-> standalone, request |-> request]
                 @@ webSearchTool(websettings, standalone, request)
    /\ UNCHANGED <<settings, search, excl, rerank, websettings, mention, youtube, canvas, vault, exec, registry, edit>>

\* the JSON array is handed back to the caller
ReturnWeb ==
    /\ web # NoWeb
    /\ web' = NoWeb
    /\ UNCHANGED <<settings, search, excl, rerank, websettings, mention, youtube, canvas, vault, exec, registry, edit>>

(***************************************************************************)
(* Mention (src/mentions/Mention.ts): processUrlList runs one callback per *)
(* URL concurrently.  A callback awaits the image check, then, for a URL   *)
(* that is not cached, the fetch of the page or of the transcript; the     *)
(* awaited operations of the running callbacks complete in any order.      *)
(***************************************************************************)
\* the most processUrlList calls in progress at a time
MaxCalls == 2

\* the most URLs in a list
MaxUrls == 2

\* the invocations of a fetch that are counted for one URL
MaxFetches == 2

\* two image URLs, a YouTube URL and a web page
MentionUrls == {"i1", "i2", "y", "u"}

\* ImageProcessor.isImageUrl(url, app.vault)
IsImageUrl(url) == url \in {"i1", "i2"}

isYoutubeUrl(url) == url \in {"y", "y2"}

UrlLists == UNION {[1..n -> MentionUrls] : n \in 0..MaxUrls}

\* a MentionData of the cache; present is FALSE for a URL the map lacks
MentionData(type, original, processed, error) ==
    [present |-> TRUE, type |-> type, original |-> original,
     processed |-> processed, error |-> error]

NoMentionData ==
    [present |-> FALSE, type |-> "", original |-> "", processed |-> "", error |-> Undefined]

\* what processUrl(url) resolves to: the text of the page, or the URL itself
\* with the error of the request
ProcessUrlOutcomes(url) ==
    {[response |-> "content", error |-> Undefined],
     [response |-> url, error |-> Some("request failed")]}

\* what processYoutubeUrl(url) resolves to: the transcript, or an error
ProcessYoutubeUrlOutcomes ==
    {[transcript |-> "transcript", error |-> Undefined],
     [transcript |-> "", error |-> Some("no transcript")]}

\* the value a callback resolves to
UrlResult(type, url, data) == [type |-> type, url |-> url, data |-> data]

NoUrlResult == UrlResult("pending", "", NoMentionData)

\* one processUrlList call: its urls, the position of each callback, the
\* values the callbacks resolved to, and the three parts of the result
UrlListCall(phase, urls, pc, results, imageUrls, urlContext, processedErrorUrls) ==
    [phase |-> phase, urls |-> urls, pc |-> pc, results |-> results,
     imageUrls |-> imageUrls, urlContext |-> urlContext,
     processedErrorUrls |-> processedErrorUrls]

NoUrlListCall == UrlListCall("idle", <<>>, <<>>, <<>>, <<>>, <<>>, <<>>)

\* urlContext: one block for each result with processed content, in the order
\* of processedUrls
RECURSIVE UrlContext(_)
UrlContext(processedUrls) ==
    IF processedUrls = <<>> THEN <<>>
    ELSE LET result == Head(processedUrls) IN
         (IF result.type # "image" /\ result.data.processed # ""
          THEN << [block |-> IF result.type = "youtube"
                             THEN "youtube_transcript" ELSE "url_content",
                   url |-> result.data.original,
                   text |-> result.data.processed] >>
          ELSE <<>>)
         \o UrlContext(Tail(processedUrls))

\* processedErrorUrls: the error of each URL that has one, the last one set
RECURSIVE ProcessedErrorUrls(_, _)
ProcessedErrorUrls(processedUrls, acc) ==
    IF processedUrls = <<>> THEN acc
    ELSE LET result == Head(processedUrls) IN
         ProcessedErrorUrls(Tail(processedUrls),
             IF result.type # "image" /\ result.data.error # Undefined
                /\ result.data.error[1] # ""
             THEN {e \in acc : e[1] # result.data.original}
                  \cup {<<result.data.original, result.data.error[1]>>}
             ELSE acc)

NoMention ==
    [mentions |-> [url \in MentionUrls |-> NoMentionData],
     fetches  |-> [url \in MentionUrls |-> 0],
     calls    |-> [c \in 1..MaxCalls |-> NoUrlListCall]]

\* processUrlList(urls): every callback runs up to its first await
ProcessUrlList(c) ==
    /\ mention.calls[c].phase = "idle"
    /\ \E urls \in UrlLists :
          mention' = [mention EXCEPT !.calls[c] =
              IF Len(urls) = 0
              THEN UrlListCall("returned", urls, <<>>, <<>>, <<>>, <<>>, {})
              ELSE UrlListCall("running", urls, [i \in 1..Len(urls) |-> "check"],
                               [i \in 1..Len(urls) |-> NoUrlResult], <<>>, <<>>, {})]
    /\ UNCHANGED <<settings, search, excl, rerank, websettings, web, youtube, canvas, vault, exec, registry, edit>>

\* the image check of one callback completes: an image URL is pushed to
\* imageUrls; a cached URL resolves to its MentionData; for any other URL
\* processYoutubeUrl or processUrl is invoked
ImageCheckDone(c) ==
    /\ mention.calls[c].phase = "running"
    /\ \E i \in 1..Len(mention.calls[c].urls) :
          /\ mention.calls[c].pc[i] = "check"
          /\ LET url  == mention.calls[c].urls[i]
                 type == IF isYoutubeUrl(url) THEN "youtube" ELSE "url"
             IN mention' =
                 IF IsImageUrl(url)
                 THEN [mention EXCEPT
                          !.calls[c].imageUrls = Append(@, url),
                          !.calls[c].results[i] = UrlResult("image", url, NoMentionData),
                          !.calls[c].pc[i] = "done"]
                 ELSE IF mention.mentions[url].present
                 THEN [mention EXCEPT
                          !.calls[c].results[i] = UrlResult(type, url, mention.mentions[url]),
                          !.calls[c].pc[i] = "done"]
                 ELSE [mention EXCEPT
                          !.fetches[url] = Min(@ + 1, MaxFetches),
                          !.calls[c].pc[i] = "fetch"]
    /\ UNCHANGED <<settings, search, excl, rerank, websettings, web, youtube, canvas, vault, exec, registry, edit>>

\* the MentionData a callback stores when its fetch completes
Fetched(url) ==
    IF isYoutubeUrl(url)
    THEN {MentionData("youtube", url, o.transcript, o.error) : o \in ProcessYoutubeUrlOutcomes}
    ELSE {MentionData("url", url, o.response, o.error) : o \in ProcessUrlOutcomes(url)}

\* processYoutubeUrl or processUrl of one callback completes: the outcome is
\* stored in the cache and the callback resolves to it
FetchDone(c) ==
    /\ mention.calls[c].phase = "running"
    /\ \E i \in 1..Len(mention.calls[c].urls) :
          /\ mention.calls[c].pc[i] = "fetch"
          /\ LET url == mention.calls[c].urls[i] IN
             \E data \in Fetched(url) :
                 mention' = [mention EXCEPT
                     !.mentions[url] = data,
                     !.calls[c].results[i] = UrlResult(data.type, url, data),
                     !.calls[c].pc[i] = "done"]
    /\ UNCHANGED <<settings, search, excl, rerank, websettings, web, youtube, canvas, vault, exec, registry, edit>>

\* Promise.all resolves: the blocks are appended in the order of the results
ReturnUrlList(c) ==
    /\ mention.calls[c].phase = "running"
    /\ \A i \in 1..Len(mention.calls[c].urls) : mention.calls[c].pc[i] = "done"
    /\ mention' = [mention EXCEPT !.calls[c] =
           UrlListCall("returned", @.urls, <<>>, <<>>, @.imageUrls,
                       UrlContext(@.results), ProcessedErrorUrls(@.results, {}))]
    /\ UNCHANGED <<settings, search, excl, rerank, websettings, web, youtube, canvas, vault, exec, registry, edit>>

\* the caller has taken the result
TakeUrlList(c) ==
    /\ mention.calls[c].phase = "returned"
    /\ mention' = [mention EXCEPT !.calls[c] = NoUrlListCall]
    /\ UNCHANGED <<settings, search, excl, rerank, websettings, web, youtube, canvas, vault, exec, registry, edit>>

\* clearMentions(): the cache is emptied; fetches counts the invocations of
\* processUrl / processYoutubeUrl since then, up to MaxFetches
ClearMentions ==
    /\ \E url \in MentionUrls : mention.mentions[url].present \/ mention.fetches[url] > 0
    /\ mention' = [mention EXCEPT
           !.mentions = [url \in MentionUrls |-> NoMentionData],
           !.fetches  = [url \in MentionUrls |-> 0]]
    /\ UNCHANGED <<settings, search, excl, rerank, websettings, web, youtube, canvas, vault, exec, registry, edit>>

(***************************************************************************)
(* youtubeTranscription (src/tools/YoutubeTools.ts).  The transcripts of   *)
(* the URLs are fetched concurrently; each callback resolves to its own    *)
(* entry, so the handler is one step whose input is the outcome of         *)
(* getYouTubeTranscript for each URL.                                      *)
(***************************************************************************)
\* the most URLs in the urls parameter and in a user message
MaxYoutubeUrls == 2

\* two YouTube URLs and one other URL
YoutubeInputUrls == {"y", "y2", "u"}

\* [...new Set(urls)]: the first occurrence of each URL
RECURSIVE Unique(_, _)
Unique(urls, seen) ==
    IF urls = <<>> THEN <<>>
    ELSE IF Head(urls) \in seen THEN Unique(Tail(urls), seen)
    ELSE <<Head(urls)>> \o Unique(Tail(urls), seen \cup {Head(urls)})

\* the URLs collected from the url parameter and from the urls parameter
ExplicitUrls(url, urlsParam) ==
    (IF url # Undefined /\ isYoutubeUrl(url[1]) THEN url ELSE <<>>)
    \o (IF urlsParam # Undefined THEN SelectSeq(urlsParam[1], isYoutubeUrl) ELSE <<>>)

\* one entry of results
TranscriptEntry(url, success, message, transcript) ==
    [url |-> url, success |-> success, message |-> message, transcript |-> transcript]

\* the callback of one URL: what getYouTubeTranscript(url) did is outcome
TranscribeOne(url, outcome) ==
    IF outcome.threw
    THEN TranscriptEntry(url, FALSE,
             Some(MessageOf(outcome.thrown,
                            "An error occurred while transcribing the YouTube video")),
             Undefined)
    ELSE IF outcome.transcript = ""
    THEN TranscriptEntry(url, FALSE, Some("Transcript not available"), Undefined)
    ELSE TranscriptEntry(url, TRUE, Undefined, Some(outcome.transcript))

\* mutant: the batch succeeds only when every transcription succeeded
HasSuccessfulTranscriptions_Every(results) ==
    \A k \in 1..Len(results) : results[k].success

\* results.some((result) => result.success)
HasSuccessfulTranscriptions(results) ==
    \E k \in 1..Len(results) : results[k].success

\* the JSON the handler returns; results is present when URLs were processed
YoutubeJson(success, message, results, total_urls) ==
    [success |-> success, message |-> message, results |-> results,
     total_urls |-> total_urls]

\* userMessage: the message content, if any, as its length being over
\* MAX_USER_MESSAGE_LENGTH or not and the YouTube URLs extracted from it
youtubeTranscriptionTool(url, urlsParam, userMessage, transcripts) ==
    LET explicit == ExplicitUrls(url, urlsParam)
        fallback == Len(explicit) = 0 /\ userMessage # Undefined
    IN IF fallback /\ userMessage[1].tooLong
       THEN YoutubeJson(FALSE, Some("Input too long"), Undefined, Undefined)
       ELSE LET urls == Unique(IF fallback THEN userMessage[1].urls ELSE explicit, {})
            IN IF Len(urls) = 0
               THEN YoutubeJson(FALSE, Some("No valid YouTube URLs provided"),
                                Undefined, Undefined)
               ELSE LET results == [k \in 1..Len(urls) |->
                                       TranscribeOne(urls[k], transcripts[urls[k]])]
                    IN YoutubeJson(HasSuccessfulTranscriptions(results), Undefined,
                                   Some(results), Some(Len(urls)))

\* what getYouTubeTranscript does for one URL
TranscriptOutcomes ==
    {[threw |-> FALSE, thrown |-> NotThrown, transcript |-> "transcript"],
     [threw |-> FALSE, thrown |-> NotThrown, transcript |-> ""],
     [threw |-> TRUE, thrown |-> Thrown(TRUE, "Video is unavailable"), transcript |-> ""],
     [threw |-> TRUE, thrown |-> Thrown(TRUE, "Transcript is empty"), transcript |-> ""]}

UrlParams == {Undefined} \cup {Some(u) : u \in YoutubeInputUrls}

UrlsParams ==
    {Undefined} \cup {Some(l) : l \in UNION {[1..n -> YoutubeInputUrls] : n \in 0..MaxYoutubeUrls}}

UserMessages ==
    {Undefined, Some([tooLong |-> TRUE, urls |-> <<>>])}
    \cup {Some([tooLong |-> FALSE, urls |-> l]) :
              l \in UNION {[1..n -> {"y", "y2"}] : n \in 0..MaxYoutubeUrls}}

NoYoutube == [called |-> FALSE]

\* youtubeTranscription({url, urls, _userMessageContent})
YoutubeTranscription ==
    /\ ~youtube.called
    /\ \E url \in UrlParams, urlsParam \in UrlsParams, userMessage \in UserMessages,
          transcripts \in [{"y", "y2"} -> TranscriptOutcomes] :
          youtube' = [called |-> TRUE, url |-> url, urlsParam |-> urlsParam,
                      userMessage |-> userMessage, transcripts |-> transcripts,
                      json |-> youtubeTranscriptionTool(url, urlsParam, userMessage,
                                                        transcripts)]
    /\ UNCHANGED <<settings, search, excl, rerank, websettings, web, mention, canvas, vault, exec, registry, edit>>

\* the JSON is handed back to the caller
ReturnYoutube ==
    /\ youtube.called
    /\ youtube' = NoYoutube
    /\ UNCHANGED <<settings, search, excl, rerank, websettings, web, mention, canvas, vault, exec, registry, edit>>

(***************************************************************************)
(* Canvas tools (src/tools/SearchTools.ts).  Each handler reads the canvas *)
(* file, changes the data and writes it back; calls do not overlap, so a   *)
(* handler is one step.  A node is its id and its x coordinate (y, the     *)
(* size and the content are handled like x); an edge is its id and the ids *)
(* of its two nodes.                                                       *)
(***************************************************************************)
MaxNodes == 2
MaxEdges == 1
MaxCoord == 1

\* the ids generateId can return; it draws them at random, so an id may
\* be drawn twice
NodeIds == {"n1", "n2"}
EdgeIds == {"e1", "e2"}

\* the canvas file of the vault and a path at which there is no file
CanvasPaths == {"c.canvas", "missing.canvas"}

CanvasNode(id, x) == [id |-> id, x |-> x]
CanvasEdge(id, fromNode, toNode) == [id |-> id, fromNode |-> fromNode, toNode |-> toNode]

\* what a handler returns
CanvasResult(tool, success, count) == [tool |-> tool, success |-> success, count |-> count]
NoCanvasResult == CanvasResult("", FALSE, 0)

\* readCanvasData throws when there is no file at the path
CanvasFound(path) == path = "c.canvas"

\* findIndex: the first position that satisfies Test, 0 when there is none
FindIndex(seq, Test(_)) ==
    IF \E i \in 1..Len(seq) : Test(seq[i])
    THEN CHOOSE i \in 1..Len(seq) :
             Test(seq[i]) /\ \A j \in 1..(i - 1) : ~Test(seq[j])
    ELSE 0

\* splice(index, 1)
Splice(seq, index) ==
    [i \in 1..(Len(seq) - 1) |-> IF i < index THEN seq[i] ELSE seq[i + 1]]

\* mutant: deleting a node leaves its edges
RemoveConnectedEdges_None(edges, nodeId) == edges

\* data.edges.filter(e => e.fromNode !== nodeId && e.toNode !== nodeId)
RemoveConnectedEdges(edges, nodeId) ==
    SelectSeq(edges, LAMBDA e : e.fromNode # nodeId /\ e.toNode # nodeId)

\* data.nodes.find(n => n.id === nodeId) is not undefined
NodeExists(nodes, nodeId) == \E i \in 1..Len(nodes) : nodes[i].id = nodeId

\* the loop of moveCanvasNodes: the first node with each id of nodeIds is
\* moved by deltaX
RECURSIVE MoveNodes(_, _, _)
MoveNodes(nodes, nodeIds, deltaX) ==
    IF nodeIds = <<>> THEN [nodes |-> nodes, movedCount |-> 0]
    ELSE LET index == FindIndex(nodes, LAMBDA n : n.id = Head(nodeIds))
             moved == IF index = 0 THEN nodes
                      ELSE [nodes EXCEPT ![index].x = @ + deltaX]
             rest  == MoveNodes(moved, Tail(nodeIds), deltaX)
         IN [nodes |-> rest.nodes,
             movedCount |-> rest.movedCount + (IF index = 0 THEN 0 ELSE 1)]

NoCanvas == [nodes |-> <<>>, edges |-> <<>>, result |-> NoCanvasResult]

\* the handler failed: the file is left as it was
CanvasFailure(tool) ==
    canvas' = [canvas EXCEPT !.result = CanvasResult(tool, FALSE, 0)]

\* addCanvasNode; valid: the field the node type requires is given
AddCanvasNode ==
    /\ \E path \in CanvasPaths, valid \in BOOLEAN, id \in NodeIds, x \in 0..MaxCoord :
          IF ~CanvasFound(path) \/ ~valid
          THEN CanvasFailure("addCanvasNode")
          ELSE /\ Len(canvas.nodes) < MaxNodes
               /\ canvas' = [canvas EXCEPT
                      !.nodes = Append(@, CanvasNode(id, x)),
                      !.result = CanvasResult("addCanvasNode", TRUE, 0)]
    /\ UNCHANGED <<settings, search, excl, rerank, websettings, web, mention, youtube, vault, exec, registry, edit>>

\* updateCanvasNode
UpdateCanvasNode ==
    /\ \E path \in CanvasPaths, nodeId \in NodeIds, x \in 0..MaxCoord :
          LET nodeIndex == FindIndex(canvas.nodes, LAMBDA n : n.id = nodeId) IN
          IF ~CanvasFound(path) \/ nodeIndex = 0
          THEN CanvasFailure("updateCanvasNode")
          ELSE canvas' = [canvas EXCEPT
                   !.nodes[nodeIndex].x = x,
                   !.result = CanvasResult("updateCanvasNode", TRUE, 0)]
    /\ UNCHANGED <<settings, search, excl, rerank, websettings, web, mention, youtube, vault, exec, registry, edit>>

\* deleteCanvasNode
DeleteCanvasNode ==
    /\ \E path \in CanvasPaths, nodeId \in NodeIds :
          LET nodeIndex == FindIndex(canvas.nodes, LAMBDA n : n.id = nodeId)
              edges     == RemoveConnectedEdges(canvas.edges, nodeId)
          IN IF ~CanvasFound(path) \/ nodeIndex = 0
             THEN CanvasFailure("deleteCanvasNode")
             ELSE canvas' = [nodes |-> Splice(canvas.nodes, nodeIndex),
                             edges |-> edges,
                             result |-> CanvasResult("deleteCanvasNode", TRUE,
                                            Len(canvas.edges) - Len(edges))]
    /\ UNCHANGED <<settings, search, excl, rerank, websettings, web, mention, youtube, vault, exec, registry, edit>>

\* addCanvasEdge
AddCanvasEdge ==
    /\ \E path \in CanvasPaths, fromNodeId \in NodeIds, toNodeId \in NodeIds,
          id \in EdgeIds :
          IF \/ ~CanvasFound(path)
             \/ ~NodeExists(canvas.nodes, fromNodeId)
             \/ ~NodeExists(canvas.nodes, toNodeId)
          THEN CanvasFailure("addCanvasEdge")
          ELSE /\ Len(canvas.edges) < MaxEdges
               /\ canvas' = [canvas EXCEPT
                      !.edges = Append(@, CanvasEdge(id, fromNodeId, toNodeId)),
                      !.result = CanvasResult("addCanvasEdge", TRUE, 0)]
    /\ UNCHANGED <<settings, search, excl, rerank, websettings, web, mention, youtube, vault, exec, registry, edit>>

\* deleteCanvasEdge
DeleteCanvasEdge ==
    /\ \E path \in CanvasPaths, edgeId \in EdgeIds :
          LET edgeIndex == FindIndex(canvas.edges, LAMBDA e : e.id = edgeId) IN
          IF ~CanvasFound(path) \/ edgeIndex = 0
          THEN CanvasFailure("deleteCanvasEdge")
          ELSE canvas' = [canvas EXCEPT
                   !.edges = Splice(@, edgeIndex),
                   !.result = CanvasResult("deleteCanvasEdge", TRUE, 0)]
    /\ UNCHANGED <<settings, search, excl, rerank, websettings, web, mention, youtube, vault, exec, registry, edit>>

\* moveCanvasNodes
MoveCanvasNodes ==
    /\ \E path \in CanvasPaths, deltaX \in {-1, 1},
          nodeIds \in UNION {[1..n -> NodeIds] : n \in 0..2} :
          LET moved == MoveNodes(canvas.nodes, nodeIds, deltaX) IN
          IF ~CanvasFound(path) \/ moved.movedCount = 0
          THEN CanvasFailure("moveCanvasNodes")
          ELSE /\ \A i \in 1..Len(moved.nodes) : moved.nodes[i].x \in 0..MaxCoord
               /\ canvas' = [canvas EXCEPT
                      !.nodes = moved.nodes,
                      !.result = CanvasResult("moveCanvasNodes", TRUE, moved.movedCount)]
    /\ UNCHANGED <<settings, search, excl, rerank, websettings, web, mention, youtube, vault, exec, registry, edit>>

\* clearCanvas
ClearCanvas ==
    /\ \E path \in CanvasPaths :
          IF ~CanvasFound(path)
          THEN CanvasFailure("clearCanvas")
          ELSE canvas' = [nodes |-> <<>>, edges |-> <<>>,
                          result |-> CanvasResult("clearCanvas", TRUE,
                                                  Len(canvas.edges))]
    /\ UNCHANGED <<settings, search, excl, rerank, websettings, web, mention, youtube, vault, exec, registry, edit>>

(***************************************************************************)
(* bulkRename and bulkMove (src/tools/SearchTools.ts).  The vault is the   *)
(* set of paths of its markdown files and the set of its folders; a call   *)
(* records the vault methods it called.                                    *)
(***************************************************************************)
\* String.prototype.indexOf: the 0-based position of the first occurrence, or -1
IndexOf(s, sub) ==
    LET at == {k \in 0..(Len(s) - Len(sub)) : SubSeq(s, k + 1, k + Len(sub)) = sub}
    IN IF at = {} THEN -1 ELSE CHOOSE k \in at : \A j \in at : k <= j

\* String.prototype.includes
IncludesStr(s, sub) == IndexOf(s, sub) >= 0

\* String.prototype.replace with a string pattern: the first occurrence
ReplaceFirst(s, sub, replacement) ==
    LET k == IndexOf(s, sub)
    IN IF k < 0 THEN s
       ELSE SubSeq(s, 1, k) \o replacement \o SubSeq(s, k + Len(sub) + 1, Len(s))

\* String.prototype.replace with a global regex whose atoms have no
\* quantifier: every match, from left to right, is replaced
RECURSIVE ReplaceAll(_, _, _)
ReplaceAll(s, atoms, replacement) ==
    IF s = <<>> THEN <<>>
    ELSE IF /\ Len(atoms) <= Len(s)
            /\ \A i \in 1..Len(atoms) : AtomMatches(atoms[i], s[i])
    THEN replacement \o ReplaceAll(SubSeq(s, Len(atoms) + 1, Len(s)), atoms, replacement)
    ELSE <<Head(s)>> \o ReplaceAll(Tail(s), atoms, replacement)

\* the 1-based position of the last occurrence of the character, or 0
LastIndexOfChar(s, c) ==
    LET at == {i \in 1..Len(s) : s[i] = c}
    IN IF at = {} THEN 0 ELSE CHOOSE i \in at : \A j \in at : j <= i

\* TFile.name: the path after its last "/"
FileName(path) == SubSeq(path, LastIndexOfChar(path, "/") + 1, Len(path))

\* TFile.basename: the name without its extension
FileBasename(path) ==
    LET name == FileName(path)
    IN SubSeq(name, 1, LastIndexOfChar(name, ".") - 1)

\* the parameter default of the handlers: preview = true
PreviewOrDefault_False(preview) == IF preview = Undefined THEN FALSE ELSE preview[1]

PreviewOrDefault(preview) == IF preview = Undefined THEN TRUE ELSE preview[1]

Change(old, new) == [old |-> old, new |-> new]

\* getMarkdownFiles: the files as a list, shorter paths first
RECURSIVE FilesInOrder(_)
FilesInOrder(files) ==
    IF files = {} THEN <<>>
    ELSE LET f == CHOOSE f \in files : \A g \in files : Len(f) <= Len(g)
         IN <<f>> \o FilesInOrder(files \ {f})

\* bulkRename: the filter on the files
RenameMatches(path, pattern) ==
    IF EndsWith(pattern, <<"/">>)
    THEN StartsWith(path, pattern)
    ELSE IncludesStr(path, ReplaceFirst(ReplaceFirst(pattern, <<"*", ".", "m", "d">>, <<>>),
                                        <<"*">>, <<>>))

\* bulkRename: the loop that builds renames; new RegExp(find, 'g') may throw
RECURSIVE Renames(_, _, _)
Renames(files, find, replacement) ==
    IF files = <<>> THEN [threw |-> FALSE, changes |-> <<>>]
    ELSE LET path     == Head(files)
             fileName == FileBasename(path)
             rest     == Renames(Tail(files), find, replacement)
         IN IF ~IncludesStr(fileName, find) THEN rest
            ELSE LET regex == RegExpCompile(find, <<>>) IN
                 IF ~regex.ok \/ rest.threw THEN [threw |-> TRUE, changes |-> <<>>]
                 ELSE LET newName == ReplaceAll(fileName, regex.atoms, replacement)
                          newPath == ReplaceFirst(path, fileName, newName)
                      IN [threw |-> FALSE,
                          changes |-> <<Change(path, newPath)>> \o rest.changes]

\* bulkMove: the filter on the files
MoveMatches(path, pattern) ==
    IF pattern = <<"*", ".", "m", "d">> THEN TRUE
    ELSE IF EndsWith(pattern, <<"*", ".", "m", "d">>)
    THEN StartsWith(path, ReplaceFirst(pattern, <<"*", ".", "m", "d">>, <<>>))
    ELSE IncludesStr(path, pattern)

\* bulkMove: destFolder
DestFolder(destination) ==
    IF EndsWith(destination, <<"/">>) THEN destination ELSE destination \o <<"/">>

\* bulkMove: the loop that builds moves
Moves(files, destFolder) ==
    [k \in 1..Len(files) |-> Change(files[k], destFolder \o FileName(files[k]))]

\* the loop that applies the changes: vault.rename throws when there is a
\* file at the new path; the error is caught for that file alone
RECURSIVE ApplyChanges(_, _, _)
ApplyChanges(files, changes, statuses) ==
    IF changes = <<>> THEN [files |-> files, statuses |-> statuses]
    ELSE LET c == Head(changes) IN
         IF c.old \notin files
         THEN ApplyChanges(files, Tail(changes), statuses)
         ELSE IF c.new \in files
         THEN ApplyChanges(files, Tail(changes), Append(statuses, "Error"))
         ELSE ApplyChanges((files \ {c.old}) \cup {c.new}, Tail(changes),
                           Append(statuses, "Done"))

\* what a handler returns: a message, the preview with the would-be
\* changes, or the statuses of the applied changes
BulkResult(kind, changes, statuses) ==
    [kind |-> kind, changes |-> changes, statuses |-> statuses]

\* the record of a call: its arguments, the vault before it, the vault
\* methods it called and what it returned
BulkCall(tool, preview, before, called, result) ==
    [tool |-> tool, preview |-> preview, before |-> before, called |-> called,
     result |-> result]

NoBulkCall ==
    BulkCall("", Undefined, [files |-> {}, folders |-> {}], {}, BulkResult("", <<>>, <<>>))

\* the markdown files of the vault at the start
VaultFiles ==
    {<<"a", "/", "x", ".", "m", "d">>, <<"a", "/", "y", ".", "m", "d">>,
     <<"x", ".", "m", "d">>}

NoVault == [files |-> {}, folders |-> {}, call |-> NoBulkCall]

Previews == {Undefined, Some(TRUE), Some(FALSE)}

RenamePatterns == {<<"a", "/">>, <<"a", "/", "*", ".", "m", "d">>, <<"x">>, <<"b", "/">>}

FindTexts == {<<"x">>, <<"y">>, <<".">>, <<"*">>}

ReplaceTexts == {<<"y">>, <<"*">>}

MovePatterns == {<<"*", ".", "m", "d">>, <<"a", "/", "*", ".", "m", "d">>, <<"x">>, <<"z">>}

Destinations == {<<"a">>, <<"b", "/">>}

\* bulkRename({pattern, find, replace, preview})
BulkRename ==
    /\ vault.call = NoBulkCall
    /\ \E pattern \in RenamePatterns, find \in FindTexts, replacement \in ReplaceTexts,
          preview \in Previews :
          LET matchingFiles == SelectSeq(FilesInOrder(vault.files),
                                         LAMBDA f : RenameMatches(f, pattern))
              renames == Renames(matchingFiles, find, replacement)
              call(called, result) ==
                  BulkCall("bulkRename", preview,
                           [files |-> vault.files, folders |-> vault.folders],
                           called, result)
          IN IF renames.threw
             THEN vault' = [vault EXCEPT
                      !.call = call({}, BulkResult("error", <<>>, <<>>))]
             ELSE IF Len(renames.changes) = 0
             THEN vault' = [vault EXCEPT
                      !.call = call({}, BulkResult("none", <<>>, <<>>))]
             ELSE IF PreviewOrDefault(preview)
             THEN vault' = [vault EXCEPT
                      !.call = call({}, BulkResult("preview", renames.changes, <<>>))]
             ELSE LET applied == ApplyChanges(vault.files, renames.changes, <<>>) IN
                  vault' = [vault EXCEPT
                      !.files = applied.files,
                      !.call = call({"rename"},
                                    BulkResult("applied", <<>>, applied.statuses))]
    /\ UNCHANGED <<settings, search, excl, rerank, websettings, web, mention, youtube, canvas, exec, registry, edit>>

\* bulkMove({pattern, destination, preview})
BulkMove ==
    /\ vault.call = NoBulkCall
    /\ \E pattern \in MovePatterns, destination \in Destinations, preview \in Previews :
          LET matchingFiles == SelectSeq(FilesInOrder(vault.files),
                                         LAMBDA f : MoveMatches(f, pattern))
              destFolder == DestFolder(destination)
              moves      == Moves(matchingFiles, destFolder)
              folderPath == SubSeq(destFolder, 1, Len(destFolder) - 1)
              call(called, result) ==
                  BulkCall("bulkMove", preview,
                           [files |-> vault.files, folders |-> vault.folders],
                           called, result)
          IN IF Len(matchingFiles) = 0
             THEN vault' = [vault EXCEPT
                      !.call = call({}, BulkResult("none", <<>>, <<>>))]
             ELSE IF PreviewOrDefault(preview)
             THEN vault' = [vault EXCEPT
                      !.call = call({}, BulkResult("preview", moves, <<>>))]
             ELSE LET applied == ApplyChanges(vault.files, moves, <<>>) IN
                  vault' = [files |-> applied.files,
                            folders |-> vault.folders \cup {folderPath},
                            call |-> call({"rename"} \cup
                                              (IF folderPath \in vault.folders
                                               THEN {} ELSE {"createFolder"}),
                                          BulkResult("applied", <<>>, applied.statuses))]
    /\ UNCHANGED <<settings, search, excl, rerank, websettings, web, mention, youtube, canvas, exec, registry, edit>>

\* the handler's return value is handed back to the caller
ReturnBulk ==
    /\ vault.call # NoBulkCall
    /\ vault' = [vault EXCEPT !.call = NoBulkCall]
    /\ UNCHANGED <<settings, search, excl, rerank, websettings, web, mention, youtube, canvas, exec, registry, edit>>

(***************************************************************************)
(* executeSequentialToolCall (toolExecution).  A message is the sequence   *)
(* of its parts.                                                           *)
(***************************************************************************)
\* the most tools in availableTools
MaxTools == 3

ToolNames == {"t1", "t2", "t3"}

\* a tool call is null or an object whose name may be missing
NullCall == [null |-> TRUE, name |-> Undefined]
ToolCall(name) == [null |-> FALSE, name |-> name]

\* {toolName, result, success}
ToolExecutionResult(toolName, result, success) ==
    [toolName |-> toolName, result |-> result, success |-> success]

\* mutant: only a null call is invalid
InvalidToolCall_NullOnly(toolCall) == toolCall.null

\* !toolCall || !toolCall.name
InvalidToolCall(toolCall) == toolCall.null \/ toolCall.name = Undefined

\* availableTools.map((t) => t.name).join(", ")
RECURSIVE JoinNames(_)
JoinNames(names) ==
    IF names = <<>> THEN <<>>
    ELSE IF Len(names) = 1 THEN names
    ELSE <<Head(names), ", ">> \o JoinNames(Tail(names))

\* result: what ToolManager.callTool resolved to
executeSequentialToolCall(toolCall, availableTools, result) ==
    IF InvalidToolCall(toolCall)
    THEN ToolExecutionResult(Some("unknown"),
                             <<"Error: Invalid tool call - missing tool name">>, FALSE)
    ELSE IF \A k \in 1..Len(availableTools) : Some(availableTools[k]) # toolCall.name
    THEN ToolExecutionResult(toolCall.name,
             <<"Error: Tool '">> \o toolCall.name \o <<"' not found. Available tools: ">>
                 \o JoinNames(availableTools)
                 \o <<". Make sure you have the tool enabled in the Agent settings.">>,
             FALSE)
    ELSE ToolExecutionResult(toolCall.name, <<result>>, TRUE)

ToolCalls == {NullCall, ToolCall(Undefined)} \cup {ToolCall(Some(n)) : n \in ToolNames \cup {"unknownTool"}}

\* lists of distinct tools
AvailableToolLists ==
    {l \in UNION {[1..n -> ToolNames] : n \in 0..MaxTools} :
        \A i, j \in 1..Len(l) : i # j => l[i] # l[j]}

NoExec == [called |-> FALSE]

\* executeSequentialToolCall(toolCall, availableTools)
ExecuteSequentialToolCall ==
    /\ ~exec.called
    /\ \E toolCall \in ToolCalls, availableTools \in AvailableToolLists,
          result \in {"Tool executed successfully", ""} :
          exec' = [called |-> TRUE, toolCall |-> toolCall,
                   availableTools |-> availableTools,
                   returned |-> executeSequentialToolCall(toolCall, availableTools, result)]
    /\ UNCHANGED <<settings, search, excl, rerank, websettings, web, mention, youtube, canvas, vault, registry, edit>>

\* the record is handed back to the caller
ReturnExecution ==
    /\ exec.called
    /\ exec' = NoExec
    /\ UNCHANGED <<settings, search, excl, rerank, websettings, web, mention, youtube, canvas, vault, registry, edit>>

(***************************************************************************)
(* initializeBuiltinTools (src/tools/builtinTools.ts).  The registry is    *)
(* the set of the ids of its tools; it is written by initializeBuiltinTools*)
(* alone.  calls is the list of the calls made so far, each with whether   *)
(* it was given a vault and the value of settings.enableSavedMemory.       *)
(***************************************************************************)
\* the most initializeBuiltinTools calls
MaxInitCalls == 4

\* the ids of BUILTIN_TOOLS
BUILTIN_TOOLS ==
    {"localSearch", "webSearch", "getCurrentTime", "getTimeInfoByEpoch",
     "getTimeRangeMs", "convertTimeBetweenTimezones", "readNote", "writeToFile",
     "readFileWithLineNumbers", "insertLines", "deleteLines", "replaceLines",
     "enhancedSearchReplace", "bulkRename", "bulkMove", "getBacklinks",
     "getOutgoingLinks", "findOrphanedNotes", "findBrokenLinks",
     "getBookmarkedNotes", "addBookmark", "removeBookmark", "youtubeTranscription"}

\* mutant: the registry is filled once and never rebuilt
NeedsReinitialize_WhenEmpty(tools, hasVault, enableSavedMemory) == tools = {}

\* the condition under which the registry is cleared and filled again
NeedsReinitialize(tools, hasVault, enableSavedMemory) ==
    LET hasFileTree          == "getFileTree" \in tools
        shouldHaveFileTree   == hasVault
        hasUpdateMemoryTool  == "updateMemory" \in tools
        shouldHaveMemoryTool == enableSavedMemory
    IN \/ Cardinality(tools) = 0
       \/ hasFileTree # shouldHaveFileTree
       \/ hasUpdateMemoryTool # shouldHaveMemoryTool

\* registry.clear() and the registrations that follow it
RegisteredTools(hasVault, enableSavedMemory) ==
    BUILTIN_TOOLS
    \cup (IF hasVault THEN {"getFileTree", "getTagList"} ELSE {})
    \cup (IF enableSavedMemory THEN {"updateMemory"} ELSE {})

\* the registry after initializeBuiltinTools(vault)
initializeBuiltinTools(tools, hasVault, enableSavedMemory) ==
    IF NeedsReinitialize(tools, hasVault, enableSavedMemory)
    THEN RegisteredTools(hasVault, enableSavedMemory)
    ELSE tools

\* the registry of a new ToolRegistry, before any call
NoRegistry == [tools |-> {}, before |-> {}, calls |-> <<>>]

\* initializeBuiltinTools(vault) while settings.enableSavedMemory has the
\* value enableSavedMemory
InitializeBuiltinTools ==
    /\ Len(registry.calls) < MaxInitCalls
    /\ \E hasVault \in BOOLEAN, enableSavedMemory \in BOOLEAN :
          registry' = [tools |-> initializeBuiltinTools(registry.tools, hasVault,
                                                        enableSavedMemory),
                       before |-> registry.tools,
                       calls |-> Append(registry.calls,
                                        [hasVault |-> hasVault,
                                         enableSavedMemory |-> enableSavedMemory])]
    /\ UNCHANGED <<settings, search, excl, rerank, websettings, web, mention, youtube, canvas, vault, exec, edit>>

(***************************************************************************)
(* enhancedSearchReplace and fuzzyFindMatch (src/tools/SearchTools.ts).    *)
(* Each iteration of the two loops of the handler is a step.  The list of  *)
(* the strategies of the matches, which is used in messages only, is left  *)
(* out.  The file contents are short, so the size below which the handler  *)
(* refuses a file is scaled down with them.                                *)
(***************************************************************************)
\* the longest content, also after replacements
MaxContentLen == 4

\* the longest search text
MaxSearchLen == 2

\* the most iterations of a loop in one call
MaxIterations == 4

\* MIN_FILE_SIZE (3000 in the source)
MIN_FILE_SIZE == 3

ContentChars == {"a", " ", "\n"}

\* /\s/.test(c)
IsSpace(c) == c \in {" ", "\n", "\t", "\r"}

\* String.prototype.substring(from, to), both 0-based
Substring(s, from, to) == SubSeq(s, Min(from, Len(s)) + 1, Min(to, Len(s)))

\* normalizeLineEndings: "\r\n" becomes "\n"
RECURSIVE normalizeLineEndings(_)
normalizeLineEndings(s) ==
    IF s = <<>> THEN <<>>
    ELSE IF Len(s) >= 2 /\ s[1] = "\r" /\ s[2] = "\n"
    THEN <<"\n">> \o normalizeLineEndings(SubSeq(s, 3, Len(s)))
    ELSE <<Head(s)>> \o normalizeLineEndings(Tail(s))

\* s.replace(/\s+/g, " ")
RECURSIVE CollapseWhitespace(_)
CollapseWhitespace(s) ==
    IF s = <<>> THEN <<>>
    ELSE IF IsSpace(Head(s))
    THEN IF Len(s) >= 2 /\ IsSpace(s[2])
         THEN CollapseWhitespace(Tail(s))
         ELSE <<" ">> \o CollapseWhitespace(Tail(s))
    ELSE <<Head(s)>> \o CollapseWhitespace(Tail(s))

\* the inner loop of strategy 2: the end of a run of whitespace
RECURSIVE SkipSpaces(_, _)
SkipSpaces(content, actualIndex) ==
    IF actualIndex < Len(content) /\ IsSpace(content[actualIndex + 1])
    THEN SkipSpaces(content, actualIndex + 1)
    ELSE actualIndex

\* the outer loop of strategy 2: the position in content of the position
\* spaceIndex of the content with collapsed whitespace
RECURSIVE ActualIndex(_, _, _, _)
ActualIndex(content, actualIndex, normalizedIndex, spaceIndex) ==
    IF normalizedIndex < spaceIndex /\ actualIndex < Len(content)
    THEN IF IsSpace(content[actualIndex + 1])
         THEN ActualIndex(content, SkipSpaces(content, actualIndex + 1),
                          normalizedIndex + 1, spaceIndex)
         ELSE ActualIndex(content, actualIndex + 1, normalizedIndex + 1, spaceIndex)
    ELSE actualIndex

\* s.split('\n')
RECURSIVE SplitLines(_, _)
SplitLines(s, line) ==
    IF s = <<>> THEN <<line>>
    ELSE IF Head(s) = "\n" THEN <<line>> \o SplitLines(Tail(s), <<>>)
    ELSE SplitLines(Tail(s), Append(line, Head(s)))

\* lines.join('\n')
RECURSIVE JoinLines(_)
JoinLines(lines) ==
    IF lines = <<>> THEN <<>>
    ELSE IF Len(lines) = 1 THEN lines[1]
    ELSE lines[1] \o <<"\n">> \o JoinLines(Tail(lines))

Match(index, matchedText, strategy) ==
    [found |-> TRUE, index |-> index, matchedText |-> matchedText, strategy |-> strategy]

\* fuzzyFindMatch returned null
NoMatch == [found |-> FALSE, index |-> 0, matchedText |-> <<>>, strategy |-> ""]

\* strategy 3: the first run of content lines that equals the search lines
\* when leading blanks are dropped
IndentationMatch(normalizedContent, normalizedSearch) ==
    LET contentLines == SplitLines(normalizedContent, <<>>)
        searchLines  == SplitLines(normalizedSearch, <<>>)
        fits(i) == \A idx \in 1..Len(searchLines) :
                       TrimStart(contentLines[i + idx]) = TrimStart(searchLines[idx])
        at == {i \in 0..(Len(contentLines) - Len(searchLines)) : fits(i)}
    IN IF at = {} THEN NoMatch
       ELSE LET i == CHOOSE i \in at : \A j \in at : i <= j
            IN Match(Len(JoinLines(SubSeq(contentLines, 1, i))) + (IF i > 0 THEN 1 ELSE 0),
                     JoinLines(SubSeq(contentLines, i + 1, i + Len(searchLines))),
                     "indentation-insensitive")

fuzzyFindMatch(content, searchText) ==
    LET normalizedContent == normalizeLineEndings(content)
        normalizedSearch  == normalizeLineEndings(searchText)
        index             == IndexOf(normalizedContent, normalizedSearch)
        spaceIndex        == IndexOf(CollapseWhitespace(normalizedContent),
                                     CollapseWhitespace(normalizedSearch))
        actualIndex       == ActualIndex(content, 0, 0, spaceIndex)
    IN IF index # -1
       THEN Match(index, Substring(content, index, index + Len(searchText)), "exact")
       ELSE IF spaceIndex # -1 /\ actualIndex < Len(content)
       THEN Match(actualIndex,
                  Substring(content, actualIndex, actualIndex + Len(searchText)),
                  "whitespace-insensitive")
       ELSE IndentationMatch(normalizedContent, normalizedSearch)

\* the state of a call: where it is, its arguments and its local variables
EditCall(pc, content, searchText, replacement, occurrence, modifiedContent, lastIndex,
         currentOccurrence, replacementCount, iterations, result) ==
    [pc |-> pc, content |-> content, search |-> searchText, replace |-> replacement,
     occurrence |-> occurrence, modifiedContent |-> modifiedContent,
     lastIndex |-> lastIndex, currentOccurrence |-> currentOccurrence,
     replacementCount |-> replacementCount, iterations |-> iterations,
     result |-> result]

NoEdit == EditCall("idle", <<>>, <<>>, <<>>, Undefined, <<>>, 0, 0, 0, 0, "")

\* the code after the loops
EditResult(content, modifiedContent, replacementCount, byOccurrence) ==
    IF replacementCount = 0
    THEN IF byOccurrence THEN "occurrence not found" ELSE "search text not found"
    ELSE IF content = modifiedContent THEN "no changes"
    ELSE "replaced"

\* the call leaves its loop
EditDone(modifiedContent, replacementCount) ==
    edit' = [edit EXCEPT
        !.pc = "done",
        !.modifiedContent = modifiedContent,
        !.replacementCount = replacementCount,
        !.iterations = @ + 1,
        !.result = EditResult(edit.content, modifiedContent, replacementCount,
                              edit.occurrence # Undefined)]

Contents == UNION {[1..n -> ContentChars] : n \in (MIN_FILE_SIZE - 1)..MaxContentLen}

SearchTexts == UNION {[1..n -> ContentChars] : n \in 0..MaxSearchLen}

Replacements == {<<>>, <<"a">>, <<"a", " ">>}

Occurrences == {Undefined, Some(-1), Some(0), Some(1), Some(2)}

\* enhancedSearchReplace({path, search, replace, occurrence}) up to its loop
EnhancedSearchReplace ==
    /\ edit.pc = "idle"
    /\ \E content \in Contents, searchText \in SearchTexts, replacement \in Replacements,
          occurrence \in Occurrences :
          edit' = IF Len(content) < MIN_FILE_SIZE
                  THEN EditCall("done", content, searchText, replacement, occurrence,
                                content, 0, 0, 0, 0, "file is too small")
                  ELSE EditCall(IF occurrence # Undefined THEN "nth" ELSE "all",
                                content, searchText, replacement, occurrence,
                                content, 0, 0, 0, 0, "")
    /\ UNCHANGED <<settings, search, excl, rerank, websettings, web, mention, youtube, canvas, vault, exec, registry>>

\* one iteration of the loop that replaces one occurrence
NthOccurrenceIteration ==
    /\ edit.pc = "nth"
    /\ edit.iterations < MaxIterations
    /\ LET remainingContent == Substring(edit.modifiedContent, edit.lastIndex,
                                         Len(edit.modifiedContent))
           match == fuzzyFindMatch(remainingContent, edit.search)
           actualIndex == edit.lastIndex + match.index
           lastIndex == edit.lastIndex + match.index + Len(match.matchedText)
       IN IF ~match.found
          THEN EditDone(edit.modifiedContent, 0)
          ELSE IF edit.currentOccurrence + 1 = edit.occurrence[1]
          THEN /\ Len(edit.modifiedContent) - Len(match.matchedText) + Len(edit.replace)
                      <= MaxContentLen
               /\ EditDone(Substring(edit.modifiedContent, 0, actualIndex)
                               \o edit.replace
                               \o Substring(edit.modifiedContent,
                                            actualIndex + Len(match.matchedText),
                                            Len(edit.modifiedContent)),
                           1)
          ELSE IF lastIndex >= Len(edit.modifiedContent)
          THEN EditDone(edit.modifiedContent, 0)
          ELSE edit' = [edit EXCEPT
                   !.currentOccurrence = @ + 1,
                   !.lastIndex = lastIndex,
                   !.iterations = @ + 1]
    /\ UNCHANGED <<settings, search, excl, rerank, websettings, web, mention, youtube, canvas, vault, exec, registry>>

\* one iteration of the loop that replaces all occurrences
ReplaceAllIteration ==
    /\ edit.pc = "all"
    /\ edit.iterations < MaxIterations
    /\ LET remainingContent == Substring(edit.modifiedContent, edit.lastIndex,
                                         Len(edit.modifiedContent))
           match == fuzzyFindMatch(remainingContent, edit.search)
           actualIndex == edit.lastIndex + match.index
           modifiedContent == Substring(edit.modifiedContent, 0, actualIndex)
                                  \o edit.replace
                                  \o Substring(edit.modifiedContent,
                                               actualIndex + Len(match.matchedText),
                                               Len(edit.modifiedContent))
           lastIndex == actualIndex + Len(edit.replace)
       IN IF ~match.found
          THEN EditDone(edit.modifiedContent, edit.replacementCount)
          ELSE /\ Len(modifiedContent) <= MaxContentLen
               /\ IF lastIndex >= Len(modifiedContent)
                  THEN EditDone(modifiedContent, edit.replacementCount + 1)
                  ELSE edit' = [edit EXCEPT
                           !.modifiedContent = modifiedContent,
                           !.replacementCount = @ + 1,
                           !.lastIndex = lastIndex,
                           !.iterations = @ + 1]
    /\ UNCHANGED <<settings, search, excl, rerank, websettings, web, mention, youtube, canvas, vault, exec, registry>>

\* the handler's return value is handed back to the caller
ReturnEdit ==
    /\ edit.pc = "done"
    /\ edit' = NoEdit
    /\ UNCHANGED <<settings, search, excl, rerank, websettings, web, mention, youtube, canvas, vault, exec, registry>>

(***************************************************************************)
(* Specifications                                                          *)
(***************************************************************************)
\* the search tools under the settings the user can configure
Init ==
    /\ settings \in SettingsSet
    /\ search = NoSearch
    /\ excl = NoExclusionCheck
    /\ rerank = NoRerank
    /\ websettings = DefaultWebSettings
    /\ web = NoWeb
    /\ mention = NoMention
    /\ youtube = NoYoutube
    /\ canvas = NoCanvas
    /\ vault = NoVault
    /\ exec = NoExec
    /\ registry = NoRegistry
    /\ edit = NoEdit

Next == UpdateSetting \/ LocalSearch \/ LexicalSearch \/ SemanticSearch \/ Consume

Spec == Init /\ [][Next]_vars

\* the exclusion filter applied to paths and pattern lists
InitExclusion ==
    /\ settings = [enableSemanticSearchV3 |-> FALSE, maxSourceChunks |-> 2,
                   vaultSearchExcludedPaths |-> <<>>]
    /\ search = NoSearch
    /\ excl = NoExclusionCheck
    /\ rerank = NoRerank
    /\ websettings = DefaultWebSettings
    /\ web = NoWeb
    /\ mention = NoMention
    /\ youtube = NoYoutube
    /\ canvas = NoCanvas
    /\ vault = NoVault
    /\ exec = NoExec
    /\ registry = NoRegistry
    /\ edit = NoEdit

\* the result is handed back to the caller
ReturnCheck ==
    /\ excl.checked
    /\ excl' = NoExclusionCheck
    /\ UNCHANGED <<settings, search, rerank, websettings, web, mention, youtube, canvas, vault, exec, registry, edit>>

NextExclusion == CheckPath \/ ReturnCheck

SpecExclusion == InitExclusion /\ [][NextExclusion]_vars

\* the local reranker applied to document lists and backend outcomes
InitRerank ==
    /\ settings = [enableSemanticSearchV3 |-> FALSE, maxSourceChunks |-> 2,
                   vaultSearchExcludedPaths |-> <<>>]
    /\ search = NoSearch
    /\ excl = NoExclusionCheck
    /\ rerank = NoRerank
    /\ websettings = DefaultWebSettings
    /\ web = NoWeb
    /\ mention = NoMention
    /\ youtube = NoYoutube
    /\ canvas = NoCanvas
    /\ vault = NoVault
    /\ exec = NoExec
    /\ registry = NoRegistry
    /\ edit = NoEdit

NextRerank == LocalRerankBackendDown \/ LocalRerankEmbedded \/ ReturnRerank

SpecRerank == InitRerank /\ [][NextRerank]_vars

\* the webSearch tool under the provider settings the user can configure
InitWeb ==
    /\ settings = [enableSemanticSearchV3 |-> FALSE, maxSourceChunks |-> 2,
                   vaultSearchExcludedPaths |-> <<>>]
    /\ search = NoSearch
    /\ excl = NoExclusionCheck
    /\ rerank = NoRerank
    /\ websettings = DefaultWebSettings
    /\ web = NoWeb
    /\ mention = NoMention
    /\ youtube = NoYoutube
    /\ canvas = NoCanvas
    /\ vault = NoVault
    /\ exec = NoExec
    /\ registry = NoRegistry
    /\ edit = NoEdit

NextWeb == UpdateWebSetting \/ WebSearch \/ ReturnWeb

SpecWeb == InitWeb /\ [][NextWeb]_vars

\* processUrlList calls that overlap in time, and clearMentions
InitMention ==
    /\ settings = [enableSemanticSearchV3 |-> FALSE, maxSourceChunks |-> 2,
                   vaultSearchExcludedPaths |-> <<>>]
    /\ search = NoSearch
    /\ excl = NoExclusionCheck
    /\ rerank = NoRerank
    /\ websettings = DefaultWebSettings
    /\ web = NoWeb
    /\ mention = NoMention
    /\ youtube = NoYoutube
    /\ canvas = NoCanvas
    /\ vault = NoVault
    /\ exec = NoExec
    /\ registry = NoRegistry
    /\ edit = NoEdit

NextMention ==
    \/ \E c \in 1..MaxCalls :
          \/ ProcessUrlList(c)
          \/ ImageCheckDone(c)
          \/ FetchDone(c)
          \/ ReturnUrlList(c)
          \/ TakeUrlList(c)
    \/ ClearMentions

SpecMention == InitMention /\ [][NextMention]_vars

\* the youtubeTranscription tool
InitYoutube ==
    /\ settings = [enableSemanticSearchV3 |-> FALSE, maxSourceChunks |-> 2,
                   vaultSearchExcludedPaths |-> <<>>]
    /\ search = NoSearch
    /\ excl = NoExclusionCheck
    /\ rerank = NoRerank
    /\ websettings = DefaultWebSettings
    /\ web = NoWeb
    /\ mention = NoMention
    /\ youtube = NoYoutube
    /\ canvas = NoCanvas
    /\ vault = NoVault
    /\ exec = NoExec
    /\ registry = NoRegistry
    /\ edit = NoEdit

NextYoutube == YoutubeTranscription \/ ReturnYoutube

SpecYoutube == InitYoutube /\ [][NextYoutube]_vars

\* every edge of the canvas data is between nodes of the data
EdgesIntact(data) ==
    \A k \in 1..Len(data.edges) :
        /\ \E i \in 1..Len(data.nodes) : data.nodes[i].id = data.edges[k].fromNode
        /\ \E i \in 1..Len(data.nodes) : data.nodes[i].id = data.edges[k].toNode

\* the canvas tools, from any canvas file whose edges are intact
InitCanvas ==
    /\ settings = [enableSemanticSearchV3 |-> FALSE, maxSourceChunks |-> 2,
                   vaultSearchExcludedPaths |-> <<>>]
    /\ search = NoSearch
    /\ excl = NoExclusionCheck
    /\ rerank = NoRerank
    /\ websettings = DefaultWebSettings
    /\ web = NoWeb
    /\ mention = NoMention
    /\ youtube = NoYoutube
    /\ vault = NoVault
    /\ exec = NoExec
    /\ registry = NoRegistry
    /\ edit = NoEdit
    /\ \E nodes \in UNION {[1..n -> [id : NodeIds, x : 0..MaxCoord]] : n \in 0..MaxNodes},
          edges \in UNION {[1..n -> [id : EdgeIds, fromNode : NodeIds, toNode : NodeIds]] :
                               n \in 0..MaxEdges} :
          /\ canvas = [nodes |-> nodes, edges |-> edges, result |-> NoCanvasResult]
          /\ EdgesIntact(canvas)

NextCanvas ==
    \/ AddCanvasNode
    \/ UpdateCanvasNode
    \/ MoveCanvasNodes
    \/ DeleteCanvasNode
    \/ AddCanvasEdge
    \/ DeleteCanvasEdge
    \/ ClearCanvas

SpecCanvas == InitCanvas /\ [][NextCanvas]_vars

\* the bulk file operations, from a vault with some markdown files
InitBulk ==
    /\ settings = [enableSemanticSearchV3 |-> FALSE, maxSourceChunks |-> 2,
                   vaultSearchExcludedPaths |-> <<>>]
    /\ search = NoSearch
    /\ excl = NoExclusionCheck
    /\ rerank = NoRerank
    /\ websettings = DefaultWebSettings
    /\ web = NoWeb
    /\ mention = NoMention
    /\ youtube = NoYoutube
    /\ canvas = NoCanvas
    /\ \E files \in SUBSET VaultFiles :
          vault = [files |-> files, folders |-> {<<"a">>}, call |-> NoBulkCall]
    /\ exec = NoExec
    /\ registry = NoRegistry
    /\ edit = NoEdit

NextBulk == BulkRename \/ BulkMove \/ ReturnBulk

SpecBulk == InitBulk /\ [][NextBulk]_vars

\* the execution of one tool call
InitExec ==
    /\ settings = [enableSemanticSearchV3 |-> FALSE, maxSourceChunks |-> 2,
                   vaultSearchExcludedPaths |-> <<>>]
    /\ search = NoSearch
    /\ excl = NoExclusionCheck
    /\ rerank = NoRerank
    /\ websettings = DefaultWebSettings
    /\ web = NoWeb
    /\ mention = NoMention
    /\ youtube = NoYoutube
    /\ canvas = NoCanvas
    /\ vault = NoVault
    /\ exec = NoExec
    /\ registry = NoRegistry
    /\ edit = NoEdit

NextExec == ExecuteSequentialToolCall \/ ReturnExecution

SpecExec == InitExec /\ [][NextExec]_vars

\* the tool registry
InitRegistry ==
    /\ settings = [enableSemanticSearchV3 |-> FALSE, maxSourceChunks |-> 2,
                   vaultSearchExcludedPaths |-> <<>>]
    /\ search = NoSearch
    /\ excl = NoExclusionCheck
    /\ rerank = NoRerank
    /\ websettings = DefaultWebSettings
    /\ web = NoWeb
    /\ mention = NoMention
    /\ youtube = NoYoutube
    /\ canvas = NoCanvas
    /\ vault = NoVault
    /\ exec = NoExec
    /\ registry = NoRegistry
    /\ edit = NoEdit

NextRegistry == InitializeBuiltinTools

SpecRegistry == InitRegistry /\ [][NextRegistry]_vars

\* enhancedSearchReplace
InitEdit ==
    /\ settings = [enableSemanticSearchV3 |-> FALSE, maxSourceChunks |-> 2,
                   vaultSearchExcludedPaths |-> <<>>]
    /\ search = NoSearch
    /\ excl = NoExclusionCheck
    /\ rerank = NoRerank
    /\ websettings = DefaultWebSettings
    /\ web = NoWeb
    /\ mention = NoMention
    /\ youtube = NoYoutube
    /\ canvas = NoCanvas
    /\ vault = NoVault
    /\ exec = NoExec
    /\ registry = NoRegistry
    /\ edit = NoEdit

NextEdit ==
    \/ EnhancedSearchReplace
    \/ NthOccurrenceIteration
    \/ ReplaceAllIteration
    \/ ReturnEdit

SpecEdit == InitEdit /\ [][NextEdit]_vars

(***************************************************************************)
(* Properties of the search tools (checked under Spec)                     *)
(***************************************************************************)
\* a call has returned its payload
Returned == search.tool # "none" /\ ~search.threw

HasTagTerm(salientTerms) ==
    \E i \in 1..Len(salientTerms) : Len(salientTerms[i]) > 0 /\ salientTerms[i][1] = "#"

\* rerank_score ?? score ?? 0 of a tier document
EffectiveScore(doc) ==
    IF doc.metadata.rerank_score # <<>> THEN doc.metadata.rerank_score[1]
    ELSE IF doc.metadata.score # <<>> THEN doc.metadata.score[1]
    ELSE 0

\* (path || title).toLowerCase() of a tier document as it is serialized
KeyOf(doc) ==
    ToLowerCase(IF doc.metadata.path # <<>> THEN doc.metadata.path
                ELSE IF doc.metadata.title # <<>> THEN doc.metadata.title
                ELSE Untitled)

\* the key of a serialized document
OutKey(d) == ToLowerCase(IF d.path # <<>> THEN d.path ELSE d.title)

\* C1: a localSearch call that carries a timeRange builds its retriever with
\* maxK = RETURN_ALL_LIMIT, whatever settings.maxSourceChunks is, and the
\* retriever returns every matching document up to that ceiling.
C1_ReturnAllOverridesCap ==
    (search.tool = "localSearch" /\ search.timeRange # Undefined) =>
        /\ search.options.maxK = RETURN_ALL_LIMIT
        /\ search.options.returnAll
        /\ ~search.threw =>
              Len(search.documents) = Min(Len(search.index), RETURN_ALL_LIMIT)

\* more documents matched, and were returned, than the default cap allows
C1_Witness ==
    /\ search.tool = "localSearch"
    /\ search.timeRange # Undefined
    /\ ~HasTagTerm(search.salientTerms)
    /\ ~search.threw
    /\ Len(search.documents) > search.cfg.maxSourceChunks

\* the options a tag query hands to the retriever
TagOptions ==
    /\ search.options.returnAllTags
    /\ search.options.maxK = RETURN_ALL_LIMIT
    /\ search.options.minSimilarityScore = 0

\* document i of the tier's answer is serialized into the output
InOutput(i) ==
    \E k \in 1..Len(search.output) : search.output[k].content = search.documents[i].pageContent

\* C2 as stated: with a tag term among the salient terms the retriever gets
\* returnAllTags, maxK = RETURN_ALL_LIMIT and minSimilarityScore = 0, and every
\* document of the tier's answer whose path differs from the others' is in
\* the output.
C2_TagEnumerationExhaustive_Original ==
    (search.tool = "localSearch" /\ HasTagTerm(search.salientTerms)) =>
        /\ TagOptions
        /\ ~search.threw =>
              \A i \in 1..Len(search.documents) :
                  (\A j \in 1..Len(search.documents) :
                       j # i => search.documents[j].metadata.path # search.documents[i].metadata.path)
                  => InOutput(i)

\* C2 amended: ... every document of the tier's answer whose path is not
\* excluded by settings.vaultSearchExcludedPaths and whose key
\* (path || title).toLowerCase() differs from the others' is in the output.
C2_TagEnumerationExhaustive ==
    (search.tool = "localSearch" /\ HasTagTerm(search.salientTerms)) =>
        /\ TagOptions
        /\ ~search.threw =>
              /\ Len(search.documents) = Min(Len(search.index), RETURN_ALL_LIMIT)
              /\ \A i \in 1..Len(search.documents) :
                    (/\ ~isPathExcluded(search.documents[i].metadata.path,
                                        search.cfg.vaultSearchExcludedPaths)
                     /\ \A j \in 1..Len(search.documents) :
                           j # i => KeyOf(search.documents[j]) # KeyOf(search.documents[i]))
                    => InOutput(i)

\* a tag query without a time range whose matches all score below the default
\* floor and outnumber the default cap, all of them in the output
C2_Witness ==
    /\ search.tool = "localSearch"
    /\ HasTagTerm(search.salientTerms)
    /\ search.timeRange = Undefined
    /\ ~search.threw
    /\ Len(search.index) > search.cfg.maxSourceChunks
    /\ \A i \in 1..Len(search.index) : EffectiveScore(search.index[i]) < 10
    /\ Len(search.output) = Len(search.index)

\* the tier a retriever class reads from
RetrieverTier(class) ==
    CASE class = "HybridRetriever"         -> "semantic"
      [] class = "TieredLexicalRetriever"  -> "lexical"
      [] class = "MergedSemanticRetriever" -> "lexical+semantic"

SemanticSelected ==
    /\ search.cfg.enableSemanticSearchV3
    /\ search.timeRange = Undefined
    /\ ~HasTagTerm(search.salientTerms)

\* C3: localSearch answers from the semantic tier iff semantic search is
\* enabled, no timeRange is given and no salient term is a tag; in every other
\* case (a timeRange is present, whatever the semantic flag) it answers from
\* the lexical tier.
C3_DispatcherSelection ==
    search.tool = "localSearch" =>
        IF SemanticSelected
        THEN RetrieverTier(search.retriever) = "semantic"
        ELSE RetrieverTier(search.retriever) = "lexical"

\* what the delegation does: the semanticSearch handler runs iff semantic
\* search is enabled, no timeRange is given and no salient term is a tag;
\* otherwise the lexicalSearch handler runs, and its retriever is
\* TieredLexicalRetriever only while semantic search is disabled
LocalSearchDelegation ==
    search.tool = "localSearch" =>
        IF SemanticSelected
        THEN search.handler = "semanticSearch" /\ search.retriever = "HybridRetriever"
        ELSE /\ search.handler = "lexicalSearch"
             /\ search.retriever = IF search.cfg.enableSemanticSearchV3
                                   THEN "MergedSemanticRetriever"
                                   ELSE "TieredLexicalRetriever"

\* C4: no two documents of the returned list share the key
\* (path || title).toLowerCase().
C4_NoDuplicateKeys ==
    Returned =>
        \A i, j \in 1..Len(search.output) :
            i # j => OutKey(search.output[i]) # OutKey(search.output[j])

\* documents whose keys differ only in case, or through the title fallback of
\* an empty path, reached the dedup step and one of them was returned
C4_Witness ==
    /\ Returned
    /\ \E i, j \in 1..Len(search.filtered) :
          /\ i # j
          /\ KeyOf(search.filtered[i]) = KeyOf(search.filtered[j])
          /\ search.filtered[i].metadata.path # search.filtered[j].metadata.path
    /\ Len(search.output) = Cardinality({KeyOf(search.filtered[i]) : i \in 1..Len(search.filtered)})
    /\ Len(search.output) >= 2

\* the documents that reach the dedup step under the key of a returned one
SameKey(d) == {i \in 1..Len(search.filtered) : KeyOf(search.filtered[i]) = OutKey(d)}

\* C5: the document that survives for a key carries the maximum effective
\* score (rerank_score ?? score ?? 0) of the documents that reach the dedup
\* step under that key, and is one of the documents with that score.
C5_DedupKeepsMaxScore ==
    Returned =>
        \A k \in 1..Len(search.output) :
            /\ SameKey(search.output[k]) # {}
            /\ \A i \in SameKey(search.output[k]) :
                  search.output[k].score >= EffectiveScore(search.filtered[i])
            /\ \E i \in SameKey(search.output[k]) :
                  /\ search.output[k].score = EffectiveScore(search.filtered[i])
                  /\ search.output[k].content = search.filtered[i].pageContent

\* a later duplicate with the higher score survived
C5_Witness ==
    /\ Returned
    /\ \E i, j \in 1..Len(search.filtered) :
          /\ i < j
          /\ KeyOf(search.filtered[i]) = KeyOf(search.filtered[j])
          /\ EffectiveScore(search.filtered[i]) < EffectiveScore(search.filtered[j])
          /\ \E k \in 1..Len(search.output) :
                /\ search.output[k].content = search.filtered[j].pageContent
                /\ search.output[k].score = EffectiveScore(search.filtered[j])

\* C6: the dedup step applied to the list it returned yields that list again.
C6_DedupIdempotent ==
    Returned => DedupStep(search.output) = search.output

\* the dedup step had duplicates to remove and left several documents
C6_Witness ==
    /\ Returned
    /\ Len(search.output) >= 2
    /\ Len(search.output) < Len(search.filtered)

\* the positions at which a key occurs for the first time
FirstOccurrences(docs) ==
    {i \in 1..Len(docs) : \A j \in 1..(i - 1) : KeyOf(docs[j]) # KeyOf(docs[i])}

\* the best effective score among the documents sharing the key of docs[i]
BestScore(docs, i) ==
    CHOOSE v \in {EffectiveScore(docs[j]) : j \in 1..Len(docs)} :
        /\ \E j \in 1..Len(docs) :
              KeyOf(docs[j]) = KeyOf(docs[i]) /\ EffectiveScore(docs[j]) = v
        /\ \A j \in 1..Len(docs) :
              KeyOf(docs[j]) = KeyOf(docs[i]) => EffectiveScore(docs[j]) <= v

\* C7: the returned documents stand in the order in which their keys first
\* occur in the tier's (filtered) list, each slot filled by a best-scored
\* duplicate of its key; the list is not re-ordered by score.
C7_DedupPreservesOrder ==
    Returned =>
        LET docs  == search.filtered
            first == FirstOccurrences(docs)
        IN /\ Len(search.output) = Cardinality(first)
           /\ \A i \in first :
                 LET slot == Cardinality({j \in first : j <= i})
                 IN /\ OutKey(search.output[slot]) = KeyOf(docs[i])
                    /\ search.output[slot].score = BestScore(docs, i)
                    /\ \E j \in 1..Len(docs) :
                          /\ KeyOf(docs[j]) = KeyOf(docs[i])
                          /\ EffectiveScore(docs[j]) = BestScore(docs, i)
                          /\ search.output[slot].content = docs[j].pageContent

\* a lower-scored document stays ahead of a higher-scored one, and a slot is
\* filled by a duplicate that came later in the tier's list
C7_Witness ==
    /\ Returned
    /\ Len(search.output) >= 2
    /\ search.output[1].score < search.output[2].score
    /\ \E k \in 1..Len(search.output) :
          \E i \in SameKey(search.output[k]) :
              search.filtered[i].pageContent < search.output[k].content

\* document i of the tier's answer has an excluded path
Excluded(i) ==
    isPathExcluded(search.documents[i].metadata.path, search.cfg.vaultSearchExcludedPaths)

\* C11: no returned document has a path that some pattern of
\* settings.vaultSearchExcludedPaths matches, and exclusion comes before
\* deduplication: every returned document is one of the tier's documents that
\* is not excluded, and every such document has its key in the output, even
\* when an excluded duplicate of the key scores higher.
C11_ExcludedNeverReturned ==
    Returned =>
        /\ \A k \in 1..Len(search.output) :
              /\ ~isPathExcluded(search.output[k].path, search.cfg.vaultSearchExcludedPaths)
              /\ \E i \in 1..Len(search.documents) :
                    /\ ~Excluded(i)
                    /\ search.output[k].content = search.documents[i].pageContent
                    /\ search.output[k].path = search.documents[i].metadata.path
        /\ \A i \in 1..Len(search.documents) :
              ~Excluded(i) =>
                  \E k \in 1..Len(search.output) :
                      OutKey(search.output[k]) = KeyOf(search.documents[i])

\* two patterns are configured and the second one excluded a document; an
\* excluded document scores higher than the returned document of the same key
C11_Witness ==
    /\ Returned
    /\ Len(search.cfg.vaultSearchExcludedPaths) = 2
    /\ \E i \in 1..Len(search.documents) :
          /\ Excluded(i)
          /\ ~isPathExcluded(search.documents[i].metadata.path,
                             <<search.cfg.vaultSearchExcludedPaths[1]>>)
    /\ \E i \in 1..Len(search.documents), k \in 1..Len(search.output) :
          /\ Excluded(i)
          /\ KeyOf(search.documents[i]) = OutKey(search.output[k])
          /\ EffectiveScore(search.documents[i]) > search.output[k].score

\* C13: when getRelevantDocuments of the selected retriever fails, the
\* lexicalSearch, semanticSearch or localSearch call fails with it and returns
\* no payload; a payload (with or without documents) is returned only when the
\* retrieval succeeded.
C13_IndexFailurePropagates ==
    search.tool # "none" =>
        /\ ~search.indexUp => (search.threw /\ ~Returned)
        /\ Returned => search.indexUp

\* localSearch was called while the index was unavailable and the call failed
C13_Witness ==
    /\ search.tool = "localSearch"
    /\ ~search.indexUp
    /\ search.threw

\* the options of the call follow the derivation of the lexical handler
DerivedOptions ==
    /\ search.options.returnAll = (search.timeRange # Undefined)
    /\ IF search.timeRange # Undefined \/ HasTagTerm(search.salientTerms)
       THEN /\ search.options.minSimilarityScore = 0
            /\ search.options.maxK = RETURN_ALL_LIMIT
       ELSE /\ search.options.minSimilarityScore = 10
            /\ search.options.maxK = search.cfg.maxSourceChunks

\* C15: at every search entry point (localSearch, lexicalSearch,
\* semanticSearch) the retriever's options have returnAll = (timeRange
\* present), and minSimilarityScore = 0.0 and maxK = the return-all ceiling
\* exactly when a timeRange is present or a salient term starts with "#";
\* otherwise minSimilarityScore = 0.1 and maxK = settings.maxSourceChunks.
C15_OptionDerivation ==
    search.tool # "none" => DerivedOptions

\* what holds: the derivation is followed by localSearch and lexicalSearch;
\* semanticSearch looks at the timeRange only and uses its own ceiling
OptionDerivationPerHandler ==
    search.tool # "none" =>
        IF search.handler = "lexicalSearch" THEN DerivedOptions
        ELSE /\ search.options.returnAll = (search.timeRange # Undefined)
             /\ IF search.timeRange # Undefined
                THEN /\ search.options.minSimilarityScore = 0
                     /\ search.options.maxK = Max(search.cfg.maxSourceChunks, 200)
                ELSE /\ search.options.minSimilarityScore = 10
                     /\ search.options.maxK = search.cfg.maxSourceChunks

\* C28: whenever a timeRange or a tag term is present, the maxK given to the
\* retriever is at least settings.maxSourceChunks, in lexicalSearch and in
\* semanticSearch.
C28_ReturnAllCapNotSmaller ==
    (search.tool # "none" /\ (search.timeRange # Undefined \/ HasTagTerm(search.salientTerms))) =>
        search.options.maxK >= search.cfg.maxSourceChunks

\* what holds: semanticSearch never lowers the cap, and lexicalSearch does
\* not while settings.maxSourceChunks is at most RETURN_ALL_LIMIT
ReturnAllCapPerHandler ==
    (search.tool # "none" /\ (search.timeRange # Undefined \/ HasTagTerm(search.salientTerms))) =>
        \/ search.options.maxK >= search.cfg.maxSourceChunks
        \/ /\ search.handler = "lexicalSearch"
           /\ search.cfg.maxSourceChunks > RETURN_ALL_LIMIT
           /\ search.options.maxK = RETURN_ALL_LIMIT

\* C18: every document of the output has score and rerank_score both equal
\* to its source document's rerank_score when that is present, else to its
\* score, else to 0; and that value is the one compared when a duplicate is
\* chosen, in bestByKey and in the sources handed to deduplicateSources.
C18_ScoreInvariant ==
    Returned =>
        \A k \in 1..Len(search.output) :
            LET d == search.output[k] IN
            /\ \E i \in 1..Len(search.filtered) :
                  /\ search.filtered[i].pageContent = d.content
                  /\ d.score = EffectiveScore(search.filtered[i])
                  /\ d.rerank_score = EffectiveScore(search.filtered[i])
            /\ OrNum(d.rerank_score, 0) = d.score
            /\ SourceLike(d).score = d.score

\* a returned document whose source has a rerank_score of 0 and a higher
\* score from the tier, and one whose source has a score only
C18_Witness ==
    /\ Returned
    /\ \E k \in 1..Len(search.output), i \in 1..Len(search.filtered) :
          /\ search.filtered[i].pageContent = search.output[k].content
          /\ search.filtered[i].metadata.rerank_score = Some(0)
          /\ search.filtered[i].metadata.score = Some(30)
          /\ search.output[k].score = 0
    /\ \E k \in 1..Len(search.output), i \in 1..Len(search.filtered) :
          /\ search.filtered[i].pageContent = search.output[k].content
          /\ search.filtered[i].metadata.rerank_score = Undefined
          /\ search.output[k].rerank_score = 5

(***************************************************************************)
(* Properties of the local reranker (checked under SpecRerank)             *)
(***************************************************************************)
\* the try block of the call threw
BackendFailed ==
    \/ rerank.backend # "ok"
    \/ \E i \in 1..rerank.n :
          Len(rerank.documentEmbeddings[i]) # Len(rerank.queryEmbedding)

\* C8: every relevance_score localRerank returns lies in [0, 1], on the
\* normal path and on the fallback path, for every number of documents.
C8_RelevanceInUnitInterval ==
    rerank.called =>
        \A k \in 1..Len(rerank.data) :
            /\ 0 <= rerank.data[k].relevance_score.num
            /\ rerank.data[k].relevance_score.num <= rerank.data[k].relevance_score.den

FracEq(a, b) == a.num * b.den = b.num * a.den

\* C16: the results of localRerank are in descending order of
\* relevance_score, and results of equal relevance_score are in ascending
\* order of their original index.
C16_SortedDescendingStable ==
    rerank.called =>
        \A k \in 1..(Len(rerank.data) - 1) :
            /\ ~FracLess(rerank.data[k].relevance_score, rerank.data[k + 1].relevance_score)
            /\ FracEq(rerank.data[k].relevance_score, rerank.data[k + 1].relevance_score)
                  => rerank.data[k].index < rerank.data[k + 1].index

\* the backend answered; the last document scores highest and moved to the
\* front, the two before it tie and kept their order
C16_Witness ==
    /\ rerank.called
    /\ rerank.model # "fallback"
    /\ Len(rerank.data) = 3
    /\ rerank.data[1].index = 2
    /\ rerank.data[2].index = 0
    /\ rerank.data[3].index = 1
    /\ FracEq(rerank.data[2].relevance_score, rerank.data[3].relevance_score)
    /\ FracLess(rerank.data[2].relevance_score, rerank.data[1].relevance_score)

\* C17: for n documents the index values of localRerank's results are
\* 0..n-1, each exactly once, on the normal and on the fallback path, and
\* rerankDocuments returns each input document exactly once, with the
\* relevance score of its result as rerank_score.
C17_IndicesArePermutation ==
    rerank.called =>
        /\ Len(rerank.data) = rerank.n
        /\ \A i \in 0..(rerank.n - 1) :
              Cardinality({k \in 1..Len(rerank.data) : rerank.data[k].index = i}) = 1
        /\ Len(rerank.reranked) = rerank.n
        /\ \A i \in 1..rerank.n :
              Cardinality({k \in 1..Len(rerank.reranked) :
                              rerank.reranked[k].pageContent = i}) = 1
        /\ \A k \in 1..Len(rerank.reranked) :
              /\ rerank.reranked[k].pageContent = rerank.data[k].index + 1
              /\ rerank.reranked[k].metadata.rerank_score = Some(rerank.data[k].relevance_score)

\* the backend answered and the three documents came back in another order,
\* one of them with a relevance score of 0
C17_Witness ==
    /\ rerank.called
    /\ rerank.model # "fallback"
    /\ Len(rerank.reranked) = 3
    /\ rerank.reranked[1].pageContent # 1
    /\ rerank.reranked[3].metadata.rerank_score = Some(Frac(0, 2))

\* the relevance score localRerank gives the one document whose embedding is
\* doc when the embedding of the query is query
RelevanceOf(query, doc) == localRerank(1, "ok", query, <<doc>>).data[1].relevance_score

\* C19: for vectors v1, v2 of equal length cosineSimilarity(v1, v2) equals
\* cosineSimilarity(v2, v1), and the relevance of (query = v1, doc = v2)
\* equals that of (query = v2, doc = v1).
C19_CosineSymmetry ==
    (rerank.called /\ rerank.backend = "ok") =>
        \A i \in 1..rerank.n :
            LET v1 == rerank.queryEmbedding
                v2 == rerank.documentEmbeddings[i]
            IN Len(v1) = Len(v2) =>
                  /\ cosineSimilarity(v1, v2) = cosineSimilarity(v2, v1)
                  /\ RelevanceOf(v1, v2) = RelevanceOf(v2, v1)
                  /\ rerank.model # "fallback" =>
                        \E k \in 1..Len(rerank.data) :
                            /\ rerank.data[k].index = i - 1
                            /\ rerank.data[k].relevance_score = RelevanceOf(v2, v1)

\* the query and a document have embeddings of different norms that are
\* neither orthogonal nor parallel
C19_Witness ==
    /\ rerank.called
    /\ rerank.backend = "ok"
    /\ rerank.model # "fallback"
    /\ rerank.n >= 1
    /\ rerank.queryEmbedding = <<1, 0>>
    /\ rerank.documentEmbeddings[1] = <<3, 4>>
    /\ \E k \in 1..Len(rerank.data) :
          rerank.data[k].index = 0 /\ rerank.data[k].relevance_score = Frac(8, 10)

\* an embedding of magnitude 0
ZeroMagnitude(vec) == \A i \in 1..Len(vec) : vec[i] = 0

\* C20: when the embedding of the query or of a document has magnitude 0
\* (and the lengths agree), cosineSimilarity returns 0, the document's
\* relevance_score is 0.5 and localRerank stays on the normal path.
C20_ZeroMagnitude ==
    (rerank.called /\ ~BackendFailed) =>
        /\ rerank.model # "fallback"
        /\ \A i \in 1..rerank.n :
              (ZeroMagnitude(rerank.queryEmbedding) \/ ZeroMagnitude(rerank.documentEmbeddings[i]))
              => /\ cosineSimilarity(rerank.queryEmbedding, rerank.documentEmbeddings[i])
                      = [threw |-> FALSE, value |-> Frac(0, 1)]
                 /\ \E k \in 1..Len(rerank.data) :
                       /\ rerank.data[k].index = i - 1
                       /\ rerank.data[k].relevance_score = Frac(1, 2)

\* the second of three documents has a zero embedding and is ranked between
\* a document above 0.5 and one below
C20_Witness ==
    /\ rerank.called
    /\ ~BackendFailed
    /\ rerank.n = 3
    /\ ~ZeroMagnitude(rerank.queryEmbedding)
    /\ ZeroMagnitude(rerank.documentEmbeddings[2])
    /\ rerank.data[2].index = 1
    /\ rerank.data[2].relevance_score = Frac(1, 2)
    /\ FracLess(rerank.data[2].relevance_score, rerank.data[1].relevance_score)
    /\ FracLess(rerank.data[3].relevance_score, rerank.data[2].relevance_score)

(***************************************************************************)
(* Properties of the exclusion filter (checked under SpecExclusion)        *)
(***************************************************************************)
\* a folder name: non-empty, without separators or pattern characters
IsFolderName(name) ==
    /\ Len(name) > 0
    /\ \A i \in 1..Len(name) : name[i] \notin {"/", "*", "\\"}

\* new RegExp(regexPattern) throws for the pattern
Malformed(pattern) ==
    LooksLikeRegex(pattern) /\ ~RegExpCompile(RegexPattern(pattern), <<>>).ok

\* C12: isPathExcluded returns a boolean whatever the patterns are; a pattern
\* that looks like a regex and does not compile counts as matching exactly
\* when the path equals it or starts with pattern + "/" or pattern + "\", and
\* the patterns after it are evaluated as usual.
C12_MalformedPatternLiteral ==
    excl.checked =>
        /\ excl.result \in BOOLEAN
        /\ excl.result =
              \E i \in 1..Len(excl.excludedPatterns) :
                  LET pattern == excl.excludedPatterns[i] IN
                  IF Malformed(pattern)
                  THEN \/ excl.filePath = pattern
                       \/ StartsWith(excl.filePath, pattern \o <<"/">>)
                       \/ StartsWith(excl.filePath, pattern \o <<"\\">>)
                  ELSE PatternExcludes(excl.filePath, pattern)

\* both patterns fail to compile; the first does not match the path, the
\* second names the folder the path lies in
C12_Witness ==
    /\ excl.checked
    /\ Len(excl.excludedPatterns) = 2
    /\ Malformed(excl.excludedPatterns[1])
    /\ Malformed(excl.excludedPatterns[2])
    /\ ~LiteralMatches(excl.filePath, excl.excludedPatterns[1])
    /\ StartsWith(excl.filePath, excl.excludedPatterns[2] \o <<"/">>)
    /\ excl.result

\* C10: the single pattern folder + "/" excludes every path inside the folder
\* and no path outside of it (such as one in a folder whose name only starts
\* with the same characters).
C10_FolderPrefixExclusion ==
    (/\ excl.checked
     /\ Len(excl.excludedPatterns) = 1
     /\ Len(excl.excludedPatterns[1]) > 1
     /\ excl.excludedPatterns[1][Len(excl.excludedPatterns[1])] = "/"
     /\ IsFolderName(SubSeq(excl.excludedPatterns[1], 1, Len(excl.excludedPatterns[1]) - 1)))
    => LET pattern == excl.excludedPatterns[1]
           inside  == /\ Len(excl.filePath) >= Len(pattern)
                      /\ SubSeq(excl.filePath, 1, Len(pattern)) = pattern
       IN excl.result = inside

(***************************************************************************)
(* Properties of web search (checked under SpecWeb)                        *)
(***************************************************************************)
\* the call met a failure: the provider is not configured, the provider's
\* search failed, or getStandaloneQuestion failed
WebFailure ==
    \/ web.standalone.threw
    \/ ~isWebSearchConfigured(web.cfg)
    \/ web.request.threw

C29_ErrorFieldIffSearchFailed ==
    web.called => ((web.json[1].error # Undefined) = WebFailure)

\* the provider answered without results
AnswerWithoutResults ==
    /\ ~web.request.threw
    /\ Len(web.request.response.results) = 0
    /\ Truthy(web.request.response.answer)

\* what holds: a failed search always carries an error field, and so does a
\* provider's answer that comes without results
ErrorFieldOrAnswerWithoutResults ==
    web.called =>
        ((web.json[1].error # Undefined) = (WebFailure \/ AnswerWithoutResults))

(***************************************************************************)
(* Properties of Mention (checked under SpecMention)                       *)
(***************************************************************************)
\* a is b with some elements left out
RECURSIVE IsSubsequence(_, _)
IsSubsequence(a, b) ==
    IF a = <<>> THEN TRUE
    ELSE IF b = <<>> THEN FALSE
    ELSE IF Head(a) = Head(b) THEN IsSubsequence(Tail(a), Tail(b))
    ELSE IsSubsequence(a, Tail(b))

\* the URLs of the blocks of a urlContext, in their order
BlockUrls(urlContext) == [k \in 1..Len(urlContext) |-> urlContext[k].url]

\* C21: for every order in which the image checks and fetches of a
\* processUrlList call complete, the entries of imageUrls and the blocks of
\* urlContext stand in the order of their URLs in the input list.
C21_OutputOrderByPosition ==
    \A c \in 1..MaxCalls :
        mention.calls[c].phase = "returned" =>
            /\ mention.calls[c].imageUrls = SelectSeq(mention.calls[c].urls, IsImageUrl)
            /\ IsSubsequence(BlockUrls(mention.calls[c].urlContext),
                             SelectSeq(mention.calls[c].urls, LAMBDA u : ~IsImageUrl(u)))

\* what holds: the blocks of urlContext stand in input order, whatever the
\* order of completion; imageUrls holds the image URLs in the order in which
\* their checks completed
UrlContextInInputOrder ==
    \A c \in 1..MaxCalls :
        mention.calls[c].phase = "returned" =>
            IsSubsequence(BlockUrls(mention.calls[c].urlContext),
                          SelectSeq(mention.calls[c].urls, LAMBDA u : ~IsImageUrl(u)))

\* C30: between two clearMentions calls processUrl / processYoutubeUrl is
\* invoked at most once for each URL, also when processUrlList calls overlap
\* and when a list holds a URL more than once.
C30_FetchAtMostOnce ==
    \A url \in MentionUrls : mention.fetches[url] <= 1

(***************************************************************************)
(* Properties of youtubeTranscription (checked under SpecYoutube)          *)
(***************************************************************************)
\* the YouTube URLs the call was given: those of url and urls, or, when
\* there is none, those of the user message
GivenYoutubeUrls ==
    LET explicit ==
            (IF youtube.url # Undefined /\ youtube.url[1] \in {"y", "y2"}
             THEN youtube.url ELSE <<>>)
            \o (IF youtube.urlsParam # Undefined
                THEN SelectSeq(youtube.urlsParam[1], LAMBDA u : u \in {"y", "y2"})
                ELSE <<>>)
    IN IF explicit # <<>> THEN explicit
       ELSE IF youtube.userMessage # Undefined THEN youtube.userMessage[1].urls
       ELSE <<>>

\* the positions at which a URL occurs for the first time
FirstUrlOccurrences(urls) ==
    {i \in 1..Len(urls) : \A j \in 1..(i - 1) : urls[j] # urls[i]}

\* the transcript of the URL was fetched and is not empty
TranscriptFetched(url) ==
    ~youtube.transcripts[url].threw /\ youtube.transcripts[url].transcript # ""

\* C22: when URLs are processed, results has one entry for each distinct
\* YouTube URL given, in the order of first occurrence; an entry whose
\* transcript fetch failed or came back empty has success = false and a
\* message, the others have success = true and the transcript; the overall
\* success is true iff some entry succeeded.
C22_PartialFailureDegradesOneItem ==
    (youtube.called /\ youtube.json.results # Undefined) =>
        LET urls    == GivenYoutubeUrls
            first   == FirstUrlOccurrences(urls)
            results == youtube.json.results[1]
        IN /\ Len(results) = Cardinality(first)
           /\ youtube.json.total_urls = Some(Cardinality(first))
           /\ \A i \in first :
                 LET k == Cardinality({j \in first : j <= i}) IN
                 /\ results[k].url = urls[i]
                 /\ results[k].success = TranscriptFetched(urls[i])
                 /\ ~TranscriptFetched(urls[i]) =>
                       results[k].message # Undefined /\ results[k].transcript = Undefined
                 /\ TranscriptFetched(urls[i]) => results[k].transcript # Undefined
           /\ youtube.json.success = (\E i \in 1..Len(urls) : TranscriptFetched(urls[i]))

\* a URL is given twice; the fetch for the first URL throws and the second
\* URL has a transcript, so the batch succeeds with one failed entry
C22_Witness ==
    /\ youtube.called
    /\ youtube.url = Some("y")
    /\ youtube.urlsParam = Some(<<"y", "y2">>)
    /\ youtube.transcripts["y"].threw
    /\ TranscriptFetched("y2")
    /\ youtube.json.success
    /\ youtube.json.results # Undefined
    /\ Len(youtube.json.results[1]) = 2
    /\ ~youtube.json.results[1][1].success
    /\ youtube.json.results[1][2].success

(***************************************************************************)
(* Properties of the canvas tools (checked under SpecCanvas)               *)
(***************************************************************************)
\* C23: after every canvas tool call, each edge's fromNode and toNode are
\* ids of nodes of the canvas.
C23_CanvasEdgeIntegrity ==
    \A k \in 1..Len(canvas.edges) :
        /\ canvas.edges[k].fromNode \in {canvas.nodes[i].id : i \in 1..Len(canvas.nodes)}
        /\ canvas.edges[k].toNode \in {canvas.nodes[i].id : i \in 1..Len(canvas.nodes)}

\* a node with a connected edge was deleted while another node remains
C23_Witness ==
    /\ canvas.result.tool = "deleteCanvasNode"
    /\ canvas.result.success
    /\ canvas.result.count > 0
    /\ Len(canvas.nodes) > 0
    /\ Len(canvas.edges) = 0

(***************************************************************************)
(* Properties of bulkRename and bulkMove (checked under SpecBulk)          *)
(***************************************************************************)
\* C24: a bulkRename or bulkMove call with preview omitted or true calls
\* neither vault.rename nor vault.createFolder and leaves the files and the
\* folders of the vault as they were; it never returns the statuses of
\* applied changes, and the changes of its preview are would-be changes of
\* files of the vault.
C24_PreviewLeavesVaultUnchanged ==
    (vault.call.tool \in {"bulkRename", "bulkMove"} /\ vault.call.preview # Some(FALSE)) =>
        /\ vault.call.called = {}
        /\ vault.files = vault.call.before.files
        /\ vault.folders = vault.call.before.folders
        /\ vault.call.result.kind # "applied"
        /\ vault.call.result.statuses = <<>>
        /\ \A k \in 1..Len(vault.call.result.changes) :
              vault.call.result.changes[k].old \in vault.files

\* preview is omitted and files match: the call returns the list of
\* would-be changes
C24_Witness ==
    /\ vault.call.tool \in {"bulkRename", "bulkMove"}
    /\ vault.call.preview = Undefined
    /\ vault.call.result.kind = "preview"
    /\ Len(vault.call.result.changes) >= 2
    /\ vault.files = vault.call.before.files

(***************************************************************************)
(* Properties of executeSequentialToolCall (checked under SpecExec)        *)
(***************************************************************************)
\* the message has the parts in this order, next to each other
HasParts(message, parts) ==
    \E k \in 0..(Len(message) - Len(parts)) :
        \A i \in 1..Len(parts) : message[k + i] = parts[i]

\* C25: a call that cannot be dispatched resolves to a failure record: a
\* null call or a call without a name gives {toolName: "unknown", success:
\* false, result: "Error: Invalid tool call - missing tool name"}; a name
\* that is not among the available tools gives success = false, that name
\* as toolName and a "Tool '<name>' not found" message that names every
\* available tool.
C25_DispatchFailureIsARecord ==
    exec.called =>
        LET toolCall == exec.toolCall
            names    == {exec.availableTools[k] : k \in 1..Len(exec.availableTools)}
        IN /\ (toolCall.null \/ toolCall.name = Undefined) =>
                 exec.returned =
                     [toolName |-> Some("unknown"),
                      result |-> <<"Error: Invalid tool call - missing tool name">>,
                      success |-> FALSE]
           /\ (~toolCall.null /\ toolCall.name # Undefined /\ toolCall.name[1] \notin names) =>
                 /\ ~exec.returned.success
                 /\ exec.returned.toolName = toolCall.name
                 /\ HasParts(exec.returned.result,
                             <<"Error: Tool '", toolCall.name[1], "' not found. Available tools: ">>)
                 /\ \A n \in names : HasParts(exec.returned.result, <<n>>)

\* a call names a tool that is not among the two available tools
C25_Witness ==
    /\ exec.called
    /\ exec.toolCall = ToolCall(Some("unknownTool"))
    /\ Len(exec.availableTools) = 2
    /\ ~exec.returned.success

(***************************************************************************)
(* Properties of initializeBuiltinTools (checked under SpecRegistry)       *)
(***************************************************************************)
\* C26: after each initializeBuiltinTools call the registry has every
\* BUILTIN_TOOLS entry, has getFileTree and getTagList iff the call was given
\* a vault, and has updateMemory iff enableSavedMemory was true at the call;
\* a call with the same vault and memory status as the call before it leaves
\* the contents of the registry as they were.
C26_RegistryMatchesLastCall ==
    Len(registry.calls) > 0 =>
        LET n    == Len(registry.calls)
            last == registry.calls[n]
        IN /\ \A id \in BUILTIN_TOOLS : id \in registry.tools
           /\ ("getFileTree" \in registry.tools) = last.hasVault
           /\ ("getTagList" \in registry.tools) = last.hasVault
           /\ ("updateMemory" \in registry.tools) = last.enableSavedMemory
           /\ (n > 1 /\ registry.calls[n - 1] = last) => registry.tools = registry.before

\* a call without a vault and with saved memory off follows a call with
\* both: the vault tools and updateMemory are gone
C26_Witness ==
    /\ Len(registry.calls) > 1
    /\ registry.calls[Len(registry.calls)] = [hasVault |-> FALSE, enableSavedMemory |-> FALSE]
    /\ registry.calls[Len(registry.calls) - 1] = [hasVault |-> TRUE, enableSavedMemory |-> TRUE]
    /\ "getFileTree" \in registry.before
    /\ "updateMemory" \in registry.before
    /\ registry.tools = BUILTIN_TOOLS

(***************************************************************************)
(* Properties of enhancedSearchReplace (checked under SpecEdit)            *)
(***************************************************************************)
\* the length of the text the next iteration searches
Remaining(call) == Len(call.modifiedContent) - call.lastIndex

\* an iteration of one of the two loops
LoopIteration == NthOccurrenceIteration \/ ReplaceAllIteration

\* C27: each iteration of the replace-all loop and of the nth-occurrence
\* loop either leaves the loop or strictly reduces the text that remains to
\* be searched.
C27_IterationExitsOrReduces ==
    [][LoopIteration => (edit'.pc = "done" \/ Remaining(edit') < Remaining(edit))]_vars

\* with a search text that is not empty, each iteration leaves the loop or
\* strictly reduces the text that remains to be searched
IterationReducesForNonEmptySearch ==
    [][(LoopIteration /\ edit.search # <<>>) =>
           (edit'.pc = "done" \/ Remaining(edit') < Remaining(edit))]_vars

============================================================================
